---- MODULE Spec2Model ----
(***************************************************************************)
(* groupjson: group-filtered JSON encoding of Go values.                   *)
(*                                                                         *)
(* The model follows src/runtime.go (Encoder, MarshalToMap, Marshal).      *)
(* Go strings are sequences of one-character strings, so that the tag      *)
(* parsing (strings.Split), the key ordering of encoding/json and its      *)
(* escaping are computed rather than assumed.  Go values are records       *)
(* tagged by their reflect.Kind; pointers, slices and maps refer to cells  *)
(* of a heap, a machine address is a pair <<cell, offset>>.                *)
(***************************************************************************)
EXTENDS Integers, Sequences, FiniteSets, TLC

(***************************************************************************)
(* Bounds of the model.                                                    *)
(***************************************************************************)
\* longest list of groups handed to WithGroups
MaxGroups == 2
\* number of goroutines that use the package at the same time
NumGo == 2
\* largest n handed to WithMaxDepth
MaxDepthArg == 3

(***************************************************************************)
(* Strings.                                                                *)
(***************************************************************************)
\* the characters of the model in byte order (as Go compares strings)
Alphabet ==
  <<"\"", "&", ",", "-", "0", "1", "2", "3", "4", "5", "6", "7", "8", "9",
    ":", "<", ">", "[", "\\", "]", "a", "b", "c", "d", "e", "f", "g", "h",
    "i", "j", "k", "l", "m", "n", "o", "p", "q", "r", "s", "t", "u", "v",
    "w", "x", "y", "z", "{", "}">>

Ord(c) == CHOOSE i \in 1..Len(Alphabet) : Alphabet[i] = c

RECURSIVE StrLess(_, _)
\* s < t on Go strings (bytewise lexicographic)
StrLess(s, t) ==
  IF t = <<>> THEN FALSE
  ELSE IF s = <<>> THEN TRUE
  ELSE IF Head(s) = Head(t) THEN StrLess(Tail(s), Tail(t))
  ELSE Ord(Head(s)) < Ord(Head(t))

RECURSIVE SplitFrom(_, _, _)
SplitFrom(s, sep, cur) ==
  IF s = <<>> THEN <<cur>>
  ELSE IF Head(s) = sep THEN <<cur>> \o SplitFrom(Tail(s), sep, <<>>)
  ELSE SplitFrom(Tail(s), sep, Append(cur, Head(s)))

\* strings.Split(s, sep) for a one-character separator: never empty,
\* Split("", ",") is the one-element list [""]
Split(s, sep) == SplitFrom(s, sep, <<>>)

RECURSIVE Join(_, _)
Join(parts, sep) ==
  IF parts = <<>> THEN <<>>
  ELSE IF Len(parts) = 1 THEN parts[1]
  ELSE parts[1] \o <<sep>> \o Join(Tail(parts), sep)

SeqToSet(s) == {s[i] : i \in 1..Len(s)}

(***************************************************************************)
(* Options (src/unnamed/part_004).                                         *)
(***************************************************************************)
ModeOr == "ModeOr"
ModeAnd == "ModeAnd"
DepthTruncate == "DepthTruncate"
DepthError == "DepthError"
Null == "Null"
Empty == "Empty"
DefaultTagKey == "groups"
DefaultMaxDepth == 32

DefaultOptions ==
  [Groups |-> <<>>, Mode |-> ModeOr, TagKey |-> DefaultTagKey,
   TopLevelKey |-> <<>>, MaxDepth |-> DefaultMaxDepth,
   DepthPolicy |-> DepthTruncate, CutoffCollection |-> Null,
   EscapeHTML |-> FALSE, SortKeys |-> FALSE,
   AllowMapInput |-> FALSE, AllowSliceInput |-> FALSE]

(***************************************************************************)
(* Errors (src/errors.go).                                                 *)
(***************************************************************************)
NoErr == "nil"
ErrNilValue == "ErrNilValue"
ErrMaxDepth == "ErrMaxDepth"
ErrInvalidType == "ErrInvalidType"
ErrCircularReference == "ErrCircularReference"
ErrUnsupportedType == "ErrUnsupportedType"
ErrNonStringMapKey == "ErrNonStringMapKey"

(***************************************************************************)
(* reflect.Type.  A struct type is named and looked up in StructTypes, so  *)
(* that a type may refer to itself (Node.Next *Node).                      *)
(***************************************************************************)
TInt == [kind |-> "int"]
TString == [kind |-> "string"]
TBool == [kind |-> "bool"]
TChan == [kind |-> "chan"]
TIface == [kind |-> "interface"]
TPtr(t) == [kind |-> "ptr", elem |-> t]
TStruct(n) == [kind |-> "struct", name |-> n]
TSlice(t) == [kind |-> "slice", elem |-> t]
TMap(k, t) == [kind |-> "map", key |-> k, elem |-> t]

\* reflect.StructField: Exported stands for PkgPath = ""
Fld(name, exported, anon, tag, type) ==
  [Name |-> name, Exported |-> exported, Anonymous |-> anon,
   Tag |-> tag, Type |-> type]

\* a struct tag `json:"j" groups:"g"`
JG(j, g) == [json |-> j, groups |-> g]
\* a struct tag `json:"j"` (no groups key)
J(j) == [json |-> j]
\* a struct tag `json:"j" access:"g"`
JA(j, g) == [json |-> j, access |-> g]

\* reflect.StructTag.Get: the empty string when the key is absent
TagGet(tag, key) == IF key \in DOMAIN tag THEN tag[key] ELSE <<>>

\* the tag options: OmitEmptyTag is ",omitempty", OmitZeroTag is ",omitzero"
OmitEmptyOpt == <<"o", "m", "i", "t", "e", "m", "p", "t", "y">>
OmitZeroOpt == <<"o", "m", "i", "t", "z", "e", "r", "o">>
OmitEmptyTag == <<",">> \o OmitEmptyOpt
OmitZeroTag == <<",">> \o OmitZeroOpt

\* group tags used by the record types of the model
GP == <<"p">>
GA == <<"a">>
GPA == <<"p", ",", "a">>
GNone == <<>>

(***************************************************************************)
(* The record types of the model, after the types of the tests             *)
(* (src/groupjson_test.go:13-53): User/Address/Meta, Shallow/Deep, Node,   *)
(* Bad, plus one type per tag combination.                                 *)
(***************************************************************************)
StructTypes ==
  [ User |->
      << Fld(<<"I", "D">>, TRUE, FALSE, JG(<<"i", "d">>, GPA), TInt),
         Fld(<<"E", "m">>, TRUE, FALSE, JG(<<"e", "m">>, GA), TString),
         Fld(<<"N", "o">>, TRUE, FALSE, J(<<"n", "o">>), TString),
         Fld(<<"T", "g">>, TRUE, FALSE,
             JG(<<"t", "g">> \o OmitEmptyTag, GPA), TSlice(TString)),
         Fld(<<"S", "c">>, TRUE, FALSE,
             JG(<<"s", "c">> \o OmitZeroTag, GPA), TSlice(TInt)),
         Fld(<<"A", "d">>, TRUE, FALSE, JG(<<"a", "d">>, GA),
             TStruct("Address")),
         Fld(<<"M", "e", "t", "a">>, TRUE, TRUE, [x \in {} |-> <<>>],
             TStruct("Meta")) >>,
    Address |->
      << Fld(<<"C", "i">>, TRUE, FALSE, JG(<<"c", "i">>, GPA), TString),
         Fld(<<"L", "1">>, TRUE, FALSE,
             JG(<<"l", "1">> \o OmitEmptyTag, GP), TString) >>,
    Meta |->
      << Fld(<<"V", "e">>, TRUE, FALSE, JG(<<"v", "e">>, GP), TInt),
         Fld(<<"h">>, FALSE, FALSE, JG(<<"h">>, GP), TInt),
         Fld(<<"S", "k">>, TRUE, FALSE, JG(<<"-">>, GP), TInt) >>,
    Shallow |->
      << Fld(<<"N", "a">>, TRUE, FALSE, JG(<<"n", "a">>, GA), TString),
         Fld(<<"X">>, TRUE, FALSE, JG(<<"x">>, GA), TInt) >>,
    Deep |->
      << Fld(<<"S", "h", "a", "l", "l", "o", "w">>, TRUE, TRUE,
             [x \in {} |-> <<>>], TStruct("Shallow")),
         Fld(<<"N", "a">>, TRUE, FALSE, JG(<<"n", "a">>, GP), TString) >>,
    Node |->
      << Fld(<<"V", "a", "l">>, TRUE, FALSE, JG(<<"v">>, GP), TInt),
         Fld(<<"N", "e", "x", "t">>, TRUE, FALSE, JG(<<"n">>, GP),
             TPtr(TStruct("Node"))) >>,
    Omit |->
      << Fld(<<"S">>, TRUE, FALSE, JG(<<"s">> \o OmitEmptyTag, GP), TString),
         Fld(<<"B">>, TRUE, FALSE, JG(<<"b">> \o OmitEmptyTag, GP), TBool),
         Fld(<<"L">>, TRUE, FALSE, JG(<<"l">> \o OmitEmptyTag, GP),
             TSlice(TInt)),
         Fld(<<"M">>, TRUE, FALSE, JG(<<"m">> \o OmitEmptyTag, GP),
             TMap(TString, TInt)),
         Fld(<<"Z">>, TRUE, FALSE, JG(<<"z">> \o OmitZeroTag, GP), TInt),
         Fld(<<"Y">>, TRUE, FALSE, JG(<<"y">> \o OmitZeroTag, GP),
             TSlice(TInt)),
         Fld(<<"P">>, TRUE, FALSE, JG(<<"p">>, GP), TInt) >>,
    Bad |->
      << Fld(<<"C">>, TRUE, FALSE, JG(<<"c">>, GP), TChan),
         Fld(<<"M">>, TRUE, FALSE, JG(<<"m">>, GA), TMap(TInt, TString)) >>,
    Pair |->
      << Fld(<<"L">>, TRUE, FALSE, JG(<<"l">>, GP), TPtr(TStruct("Node"))),
         Fld(<<"R">>, TRUE, FALSE, JG(<<"r">>, GP), TPtr(TStruct("Node"))),
         Fld(<<"N", "s">>, TRUE, FALSE, JG(<<"n", "s">>, GP),
             TSlice(TPtr(TStruct("Node")))) >>,
    Custom |->
      << Fld(<<"I", "D">>, TRUE, FALSE, [x \in {} |-> <<>>], TInt) >>,
    Label |->
      << Fld(<<"V", "a", "l">>, TRUE, FALSE, [x \in {} |-> <<>>], TString) >>,
    Holder |->
      << Fld(<<"C">>, TRUE, FALSE, JG(<<"c">>, GP), TStruct("Custom")),
         Fld(<<"T">>, TRUE, FALSE, JG(<<"t">> \o OmitEmptyTag, GP),
             TStruct("Label")),
         Fld(<<"N">>, TRUE, FALSE, JG(<<"n">>, GA), TInt) >>,
    Opt |->
      << Fld(<<"S", "h", "a", "l", "l", "o", "w">>, TRUE, TRUE,
             [x \in {} |-> <<>>], TPtr(TStruct("Shallow"))),
         Fld(<<"K">>, TRUE, FALSE, JG(<<"k">>, GA), TInt) >>,
    Ref |->
      << Fld(<<"P">>, TRUE, FALSE, JG(<<"p">> \o OmitEmptyTag, GP),
             TPtr(TInt)),
         Fld(<<"I">>, TRUE, FALSE, JG(<<"i">> \o OmitEmptyTag, GP), TIface),
         Fld(<<"Q">>, TRUE, FALSE, JG(<<"q">> \o OmitEmptyTag, GP),
             TPtr(TInt)),
         Fld(<<"J">>, TRUE, FALSE, JG(<<"j">> \o OmitEmptyTag, GP), TIface) >>,
    Box |->
      << Fld(<<"X">>, TRUE, FALSE, JG(<<"x">>, GP), TIface) >>,
    Wrap |->
      << Fld(<<"I", "n">>, TRUE, FALSE, JG(<<"i", "n">>, GP),
             TStruct("Address")),
         Fld(<<"W">>, TRUE, FALSE, JG(<<"w">>, GP), TInt) >>
  ]

StructNames == DOMAIN StructTypes

(***************************************************************************)
(* Schema (src/runtime.go:189-296).  Field indices count from 1.           *)
(***************************************************************************)
IsEmbedded(sf, parts) ==
  /\ sf.Anonymous
  /\ \/ sf.Type.kind = "struct"
     \/ sf.Type.kind = "ptr" /\ sf.Type.elem.kind = "struct"
  /\ Len(parts[1]) = 0

\* the fieldInfo built for field i of the queue item it
FieldInfoOf(it, i, sf, parts, tagKey) ==
  [name |-> sf.Name,
   jsonName |-> IF Len(parts[1]) > 0 THEN parts[1] ELSE sf.Name,
   index |-> Append(it.index, i),
   omitEmpty |-> \E k \in 2..Len(parts) : parts[k] = OmitEmptyOpt,
   omitZero |-> \E k \in 2..Len(parts) : parts[k] = OmitZeroOpt,
   groups |-> Split(TagGet(sf.Tag, tagKey), ","),
   anonymous |-> sf.Anonymous]

\* addField with the later declaration replacing the earlier one
addFieldLastWins(st, fi) ==
  IF fi.jsonName \in st.seen
  THEN [st EXCEPT !.out = [k \in 1..Len(@) |->
                            IF @[k].jsonName = fi.jsonName THEN fi ELSE @[k]]]
  ELSE [st EXCEPT !.seen = @ \cup {fi.jsonName}, !.out = Append(@, fi)]

\* addField without the collision rule: every field is appended
addFieldKeepBoth(st, fi) ==
  [st EXCEPT !.seen = @ \cup {fi.jsonName}, !.out = Append(@, fi)]

\* the collision rule at the end of the field loop: a name already seen is
\* dropped, else the field is appended and its name recorded
addField(st, fi) ==
  IF fi.jsonName \in st.seen THEN st
  ELSE [st EXCEPT !.seen = @ \cup {fi.jsonName}, !.out = Append(@, fi)]

RECURSIVE ScanFields(_, _, _, _)
\* the loop over the fields i..n of one queue item; st = [q, out, seen]
ScanFields(it, i, tagKey, st) ==
  LET fields == StructTypes[it.t.name] IN
  IF i > Len(fields) THEN st
  ELSE
    LET sf == fields[i]
        tag == TagGet(sf.Tag, "json")
        parts == Split(tag, ",")
        fi == FieldInfoOf(it, i, sf, parts, tagKey)
    IN
    IF ~sf.Exported THEN ScanFields(it, i + 1, tagKey, st)
    ELSE IF tag = <<"-">> THEN ScanFields(it, i + 1, tagKey, st)
    ELSE IF IsEmbedded(sf, parts) THEN
      LET stt == IF sf.Type.kind = "ptr" THEN sf.Type.elem ELSE sf.Type IN
      ScanFields(it, i + 1, tagKey,
        [st EXCEPT !.q = Append(@, [t |-> stt, index |-> Append(it.index, i),
                                    depth |-> it.depth + 1])])
    ELSE ScanFields(it, i + 1, tagKey, addField(st, fi))

RECURSIVE SchemaBFS(_, _)
\* the breadth-first loop `for len(q) > 0`
SchemaBFS(tagKey, st) ==
  IF st.q = <<>> THEN st.out
  ELSE
    LET it == Head(st.q)
        rest == [st EXCEPT !.q = Tail(@)]
    IN
    IF it.t.kind # "struct" THEN SchemaBFS(tagKey, rest)
    ELSE SchemaBFS(tagKey, ScanFields(it, 1, tagKey, rest))

\* buildSchema(t, tagKey): the field list of the struct type named t
buildSchema(t, tagKey) ==
  SchemaBFS(tagKey,
    [q |-> <<[t |-> TStruct(t), index |-> <<>>, depth |-> 0]>>,
     out |-> <<>>, seen |-> {}])

\* the cache c with schema s stored under key, and s as the schema returned
cacheStore(c, key, s) ==
  [s |-> s, cache |-> [k \in DOMAIN c \cup {key} |->
                         IF k = key THEN s ELSE c[k]]]

\* getSchema on the cache c (a function from <<type, tagKey>> to a schema):
\* the schema returned and the cache afterwards
getSchema(c, t, tagKey) ==
  IF <<t, tagKey>> \in DOMAIN c THEN [s |-> c[<<t, tagKey>>], cache |-> c]
  ELSE cacheStore(c, <<t, tagKey>>, buildSchema(t, tagKey))

(***************************************************************************)
(* Visibility filter (src/runtime.go:521-550).                             *)
(***************************************************************************)
\* includeField that matches any requested group whatever the mode
includeFieldOrOnly(opts, fieldGroups) ==
  \E gi \in 1..Len(opts.Groups) :
    \E fi \in 1..Len(fieldGroups) : fieldGroups[fi] = opts.Groups[gi]

includeField(opts, fieldGroups) ==
  IF Len(opts.Groups) = 0 THEN FALSE
  ELSE IF opts.Mode = ModeAnd THEN
    \A gi \in 1..Len(opts.Groups) :
      \E fi \in 1..Len(fieldGroups) : fieldGroups[fi] = opts.Groups[gi]
  ELSE
    \E gi \in 1..Len(opts.Groups) :
      \E fi \in 1..Len(fieldGroups) : fieldGroups[fi] = opts.Groups[gi]

(***************************************************************************)
(* Go values.  A value is a record tagged by its kind:                     *)
(*   int n, string s, bool b, chan,                                        *)
(*   ptr ref            ref = 0 is nil, else heap[ref] is the pointee      *)
(*   struct type fields                                                    *)
(*   slice elem ref     ref = 0 is nil, else heap[ref].items               *)
(*   map key ref        ref = 0 is nil, else heap[ref].entries             *)
(*   interface dyn      dyn.kind = "nil" is the nil interface              *)
(* An address is <<cell, offset>>: the heap cell and the word offset in    *)
(* it, as reflect's Value.Addr().Pointer() yields for runtime.go:312.      *)
(***************************************************************************)
VInt(n) == [kind |-> "int", n |-> n]
VStr(s) == [kind |-> "string", s |-> s]
VBool(b) == [kind |-> "bool", b |-> b]
VChan == [kind |-> "chan"]
VPtr(ref) == [kind |-> "ptr", ref |-> ref]
VStruct(t, fields) == [kind |-> "struct", type |-> t, fields |-> fields]
VSlice(elem, ref) == [kind |-> "slice", elem |-> elem, ref |-> ref]
VMap(key, ref) == [kind |-> "map", key |-> key, ref |-> ref]
VIface(dyn) == [kind |-> "interface", dyn |-> dyn]
VNil == [kind |-> "nil"]
\* heap cells backing a slice and a map
Arr(items) == [kind |-> "array", items |-> items]
MapData(entries) == [kind |-> "mapdata", entries |-> entries]
NoAddr == <<0, 0>>

RECURSIVE Sizeof(_)
RECURSIVE SizeofFields(_, _)
\* the size of a value of type t in machine words
Sizeof(t) ==
  IF t.kind = "struct" THEN SizeofFields(StructTypes[t.name], 1)
  ELSE IF t.kind = "string" \/ t.kind = "interface" THEN 2
  ELSE IF t.kind = "slice" THEN 3
  ELSE 1
SizeofFields(fields, i) ==
  IF i > Len(fields) THEN 0
  ELSE Sizeof(fields[i].Type) + SizeofFields(fields, i + 1)

\* the offset of field i in the struct type named t
Offset(t, i) == SizeofFields(SubSeq(StructTypes[t], 1, i - 1), 1)

Panic == "panic"

RECURSIVE fieldByIndex(_, _, _, _, _)
\* fieldByIndex (src/runtime.go:511-519) with the address of the result;
\* Value.Field panics when the value is not a struct (a nil pointer)
fieldByIndex(heap, v, addr, canAddr, index) ==
  IF index = <<>> THEN [v |-> v, addr |-> addr, canAddr |-> canAddr,
                        panic |-> FALSE]
  ELSE IF v.kind # "struct" THEN [v |-> v, addr |-> addr,
                                  canAddr |-> canAddr, panic |-> TRUE]
  ELSE
    LET i == Head(index)
        f == v.fields[i]
    IN
    IF f.kind = "ptr" /\ f.ref # 0
    THEN fieldByIndex(heap, heap[f.ref], <<f.ref, 0>>, TRUE, Tail(index))
    ELSE fieldByIndex(heap, f,
           IF canAddr THEN <<addr[1], addr[2] + Offset(v.type, i)>>
           ELSE NoAddr,
           canAddr, Tail(index))

(***************************************************************************)
(* context (src/runtime.go:141-187).  cache is the package's schemaCache,  *)
(* carried along so that an encode returns the cache it leaves behind.     *)
(***************************************************************************)
newContext(cache) == [depth |-> 0, visited |-> {}, cache |-> cache]

\* incDepth with the limit tested by >= instead of >
incDepthOffByOne(ctx, opts) ==
  [ctx |-> [ctx EXCEPT !.depth = @ + 1],
   err |-> IF ctx.depth + 1 >= opts.MaxDepth THEN ErrMaxDepth ELSE NoErr]

\* incDepth: the counter is raised, then tested against the limit; the
\* context it leaves and the error signal it returns
incDepth(ctx, opts) ==
  [ctx |-> [ctx EXCEPT !.depth = @ + 1],
   err |-> IF ctx.depth + 1 > opts.MaxDepth THEN ErrMaxDepth ELSE NoErr]

decDepth(ctx) == IF ctx.depth > 0 THEN [ctx EXCEPT !.depth = @ - 1] ELSE ctx

\* markVisited that leaves the root of the encode unrecorded
markVisitedBelowRoot(ctx, addr) ==
  IF ctx.depth > 1 THEN [ctx EXCEPT !.visited = @ \cup {addr}] ELSE ctx

\* ctx.visited[addr] = struct{}{}
markVisited(ctx, addr) == [ctx EXCEPT !.visited = @ \cup {addr}]

(***************************************************************************)
(* The tree a MarshalToMap builds (map[string]any, []any, scalars, nil).   *)
(***************************************************************************)
JNull == [j |-> "null"]
JNum(n) == [j |-> "num", n |-> n]
JStr(s) == [j |-> "str", s |-> s]
JBool(b) == [j |-> "bool", b |-> b]
JArr(items) == [j |-> "arr", items |-> items]
\* m is a function from the keys to the trees
JObj(m) == [j |-> "obj", m |-> m]
EmptyMap == [k \in {} |-> JNull]
MapPut(m, k, val) == [x \in DOMAIN m \cup {k} |-> IF x = k THEN val ELSE m[x]]

\* what an encode step returns: the value, the omit flag, the error and the
\* context as the step leaves it
R(val, omit, err, ctx) == [val |-> val, omit |-> omit, err |-> err, ctx |-> ctx]

(***************************************************************************)
(* Map iteration.  Go leaves the order of a map range unspecified: iter    *)
(* picks it, ascending or descending by key.                               *)
(***************************************************************************)
MinKey(S) == CHOOSE k \in S : \A o \in S : o = k \/ StrLess(k, o)

RECURSIVE SortedKeys(_)
SortedKeys(S) ==
  IF S = {} THEN <<>>
  ELSE LET k == MinKey(S) IN <<k>> \o SortedKeys(S \ {k})

RECURSIVE Reverse(_)
Reverse(s) == IF s = <<>> THEN <<>> ELSE Append(Reverse(Tail(s)), Head(s))

MapRange(entries, iter) ==
  IF iter = "asc" THEN SortedKeys(DOMAIN entries)
  ELSE Reverse(SortedKeys(DOMAIN entries))

\* reflect.Value.IsZero / isZeroScalar (src/runtime.go:552-567) on the
\* scalar kinds of the model
isZeroScalar(v) ==
  IF v.kind = "int" THEN v.n = 0
  ELSE IF v.kind = "bool" THEN ~v.b
  ELSE IF v.kind = "string" THEN Len(v.s) = 0
  ELSE FALSE

\* v.Interface() of a scalar, as the tree holds it
ScalarTree(v) ==
  IF v.kind = "int" THEN JNum(v.n)
  ELSE IF v.kind = "bool" THEN JBool(v.b)
  ELSE JStr(v.s)

DigitChars == <<"0", "1", "2", "3", "4", "5", "6", "7", "8", "9">>

RECURSIVE Digits(_)
Digits(n) ==
  IF n < 10 THEN <<DigitChars[n + 1]>>
  ELSE Append(Digits(n \div 10), DigitChars[(n % 10) + 1])

FormatInt(n) == IF n < 0 THEN <<"-">> \o Digits(0 - n) ELSE Digits(n)

(***************************************************************************)
(* json.Unmarshal(b, &anyVal) on the texts the hooks of the model return:  *)
(* objects, strings without escapes and unsigned integers.                 *)
(***************************************************************************)
ErrSyntax == "SyntaxError"

\* a parse step: the tree read, the text left and whether the step succeeded
PR(val, rest, ok) == [val |-> val, rest |-> rest, ok |-> ok]

ParseFail == PR(JNull, <<>>, FALSE)

DigitValue(c) == (CHOOSE i \in 1..10 : DigitChars[i] = c) - 1

IsDigit(c) == \E i \in 1..10 : DigitChars[i] = c

RECURSIVE ScanString(_, _)
\* the characters up to the closing quote
ScanString(b, acc) ==
  IF b = <<>> THEN ParseFail
  ELSE IF Head(b) = "\"" THEN PR(JStr(acc), Tail(b), TRUE)
  ELSE ScanString(Tail(b), Append(acc, Head(b)))

RECURSIVE ScanNumber(_, _)
ScanNumber(b, n) ==
  IF b # <<>> /\ IsDigit(Head(b))
  THEN ScanNumber(Tail(b), 10 * n + DigitValue(Head(b)))
  ELSE PR(JNum(n), b, TRUE)

RECURSIVE parseValue(_)
RECURSIVE parseMembers(_, _)

\* the members of an object once the value under key k was read as r
memberValue(m, k, r) ==
  IF ~r.ok \/ r.rest = <<>> THEN ParseFail
  ELSE IF Head(r.rest) = ","
  THEN parseMembers(Tail(r.rest), MapPut(m, k.val.s, r.val))
  ELSE IF Head(r.rest) = "}"
  THEN PR(JObj(MapPut(m, k.val.s, r.val)), Tail(r.rest), TRUE)
  ELSE ParseFail

\* the members of an object once a key was read as k
memberKey(m, k) ==
  IF ~k.ok \/ k.rest = <<>> THEN ParseFail
  ELSE IF Head(k.rest) # ":" THEN ParseFail
  ELSE memberValue(m, k, parseValue(Tail(k.rest)))

parseMembers(b, m) ==
  IF b = <<>> THEN ParseFail
  ELSE IF Head(b) # "\"" THEN ParseFail
  ELSE memberKey(m, ScanString(Tail(b), <<>>))

parseValue(b) ==
  IF b = <<>> THEN ParseFail
  ELSE IF Head(b) = "{" THEN
    IF Len(b) > 1 /\ b[2] = "}" THEN PR(JObj(EmptyMap), Tail(Tail(b)), TRUE)
    ELSE parseMembers(Tail(b), EmptyMap)
  ELSE IF Head(b) = "\"" THEN ScanString(Tail(b), <<>>)
  ELSE IF IsDigit(Head(b)) THEN ScanNumber(b, 0)
  ELSE ParseFail

\* the whole text must be one value
unmarshalDone(r) ==
  IF r.ok /\ r.rest = <<>> THEN [val |-> r.val, err |-> NoErr]
  ELSE [val |-> JNull, err |-> ErrSyntax]

Unmarshal(b) == unmarshalDone(parseValue(b))

(***************************************************************************)
(* Serialization hooks.  Custom implements json.Marshaler and Label        *)
(* implements encoding.TextMarshaler, both on the value receiver           *)
(* (src/unnamed/part_000:59-75).                                           *)
(***************************************************************************)
JSONMarshalers == {"Custom"}

TextMarshalers == {"Label"}

asJSONMarshaler(v) == v.kind = "struct" /\ v.type \in JSONMarshalers

asTextMarshaler(v) == v.kind = "struct" /\ v.type \in TextMarshalers

\* Custom.MarshalJSON: {"cid":<ID>}
MarshalJSON(v) ==
  [b |-> <<"{", "\"", "c", "i", "d", "\"", ":">> \o FormatInt(v.fields[1].n)
         \o <<"}">>,
   err |-> NoErr]

\* Label.MarshalText: "p_" followed by Val
MarshalText(v) == [txt |-> <<"p", "_">> \o v.fields[1].s, err |-> NoErr]

\* encodeValue once MarshalJSON answered h and json.Unmarshal answered u
jsonHookParsed(ctx, u) ==
  IF u.err # NoErr THEN R(JNull, FALSE, u.err, ctx)
  ELSE R(u.val, FALSE, NoErr, ctx)

jsonHook(ctx, h) ==
  IF h.err # NoErr THEN R(JNull, FALSE, h.err, ctx)
  ELSE jsonHookParsed(ctx, Unmarshal(h.b))

\* encodeValue once MarshalText answered h
textHook(ctx, h, omitEmpty) ==
  IF h.err # NoErr THEN R(JNull, FALSE, h.err, ctx)
  ELSE IF omitEmpty /\ Len(h.txt) = 0 THEN R(JNull, TRUE, NoErr, ctx)
  ELSE R(JStr(h.txt), FALSE, NoErr, ctx)

(***************************************************************************)
(* The encoder (src/runtime.go:300-509).  e = [opts, heap, iter] is fixed  *)
(* during one call.                                                        *)
(***************************************************************************)
RECURSIVE encodeStruct(_, _, _, _, _)
RECURSIVE encodeFields(_, _, _, _, _, _, _, _)
RECURSIVE encodeValue(_, _, _, _, _, _, _)
RECURSIVE encodeSliceFrom(_, _, _, _, _, _)
RECURSIVE encodeEntries(_, _, _, _, _)

\* the result of an exceeded depth limit for a container whose truncated
\* form is cut: the error under DepthError, else the cut value
DepthCut(e, ctx, cut) ==
  IF e.opts.DepthPolicy = DepthError THEN R(JNull, FALSE, ErrMaxDepth, ctx)
  ELSE R(cut, FALSE, NoErr, ctx)

\* structLeave without the deferred delete: a record once visited stays in
\* the visited set
structLeaveKeepVisited(ctx, addr, canAddr) == decDepth(ctx)

\* the deferred delete(ctx.visited, addr) and ctx.decDepth() of encodeStruct
structLeave(ctx, addr, canAddr) ==
  decDepth(IF canAddr THEN [ctx EXCEPT !.visited = @ \ {addr}] ELSE ctx)

\* encodeStruct from getSchema's answer gs on: the field loop, then the
\* deferred calls
structFields(e, ctx, gs, v, addr, canAddr) ==
  [encodeFields(e, [ctx EXCEPT !.cache = gs.cache], v, addr, canAddr,
                gs.s, 1, EmptyMap)
     EXCEPT !.ctx = structLeave(@, addr, canAddr)]

\* encodeStruct from the visited mark on
structVisit(e, ctx, v, addr, canAddr) ==
  structFields(e, ctx, getSchema(ctx.cache, v.type, e.opts.TagKey),
               v, addr, canAddr)

\* encodeStruct after incDepth answered inc
structEntered(e, inc, v, addr, canAddr) ==
  IF inc.err # NoErr THEN DepthCut(e, inc.ctx, JNull)
  ELSE IF canAddr /\ addr \in inc.ctx.visited
  THEN R(JNull, FALSE, ErrCircularReference, decDepth(inc.ctx))
  ELSE structVisit(e, IF canAddr THEN markVisited(inc.ctx, addr) ELSE inc.ctx,
                   v, addr, canAddr)

encodeStruct(e, ctx, v, addr, canAddr) ==
  structEntered(e, incDepth(ctx, e.opts), v, addr, canAddr)

\* fieldEncoded that hands back the map built so far next to the error
fieldEncodedPartial(e, v, addr, canAddr, fields, i, out, r) ==
  IF r.err # NoErr THEN R(JObj(out), FALSE, r.err, r.ctx)
  ELSE IF r.omit
  THEN encodeFields(e, r.ctx, v, addr, canAddr, fields, i + 1, out)
  ELSE encodeFields(e, r.ctx, v, addr, canAddr, fields, i + 1,
                    MapPut(out, fields[i].jsonName, r.val))

\* the field loop once field i was encoded as r
fieldEncoded(e, v, addr, canAddr, fields, i, out, r) ==
  IF r.err # NoErr THEN R(JNull, FALSE, r.err, r.ctx)
  ELSE IF r.omit
  THEN encodeFields(e, r.ctx, v, addr, canAddr, fields, i + 1, out)
  ELSE encodeFields(e, r.ctx, v, addr, canAddr, fields, i + 1,
                    MapPut(out, fields[i].jsonName, r.val))

\* the field loop once fieldByIndex answered fb for field i
fieldFound(e, ctx, v, addr, canAddr, fields, i, out, fb) ==
  IF fb.panic THEN R(JNull, FALSE, Panic, ctx)
  ELSE fieldEncoded(e, v, addr, canAddr, fields, i, out,
         encodeValue(e, ctx, fb.v, fb.addr, fb.canAddr,
                     fields[i].omitEmpty, fields[i].omitZero))

\* the loop over sch.fields from field i on; out is the map built so far
encodeFields(e, ctx, v, addr, canAddr, fields, i, out) ==
  IF i > Len(fields) THEN R(JObj(out), FALSE, NoErr, ctx)
  ELSE IF Len(e.opts.Groups) = 0
  THEN encodeFields(e, ctx, v, addr, canAddr, fields, i + 1, out)
  ELSE IF ~includeField(e.opts, fields[i].groups)
  THEN encodeFields(e, ctx, v, addr, canAddr, fields, i + 1, out)
  ELSE fieldFound(e, ctx, v, addr, canAddr, fields, i, out,
         fieldByIndex(e.heap, v, addr, canAddr, fields[i].index))

\* the slice loop once element i was encoded as r
itemEncoded(e, v, items, i, out, r) ==
  IF r.err # NoErr THEN R(JNull, FALSE, r.err, r.ctx)
  ELSE encodeSliceFrom(e, r.ctx, v, items, i + 1, Append(out, r.val))

\* encodeSlice's loop from element i on (src/runtime.go:379-390)
encodeSliceFrom(e, ctx, v, items, i, out) ==
  IF i > Len(items) THEN R(JArr(out), FALSE, NoErr, ctx)
  ELSE itemEncoded(e, v, items, i, out,
         encodeValue(e, ctx, items[i], <<v.ref, (i - 1) * Sizeof(v.elem)>>,
                     TRUE, FALSE, FALSE))

\* encodeSlice (src/runtime.go:375-391)
encodeSlice(e, ctx, v) ==
  IF v.ref = 0 THEN R(JNull, FALSE, NoErr, ctx)
  ELSE encodeSliceFrom(e, ctx, v, e.heap[v.ref].items, 1, <<>>)

\* the map loop once the entry under Head(keys) was encoded as r
entryEncoded(e, entries, keys, out, r) ==
  IF r.err # NoErr THEN R(JNull, FALSE, r.err, r.ctx)
  ELSE encodeEntries(e, r.ctx, entries, Tail(keys),
                     MapPut(out, Head(keys), r.val))

\* the loop `for iter.Next()` over the keys still to visit
encodeEntries(e, ctx, entries, keys, out) ==
  IF keys = <<>> THEN R(JObj(out), FALSE, NoErr, ctx)
  ELSE entryEncoded(e, entries, keys, out,
         encodeValue(e, ctx, entries[Head(keys)], NoAddr, FALSE, FALSE, FALSE))

\* the entries of a map value: none for the nil map
EntriesOf(e, v) == IF v.ref = 0 THEN EmptyMap ELSE e.heap[v.ref].entries

\* the reflect.Map case of encodeValue after incDepth answered inc
mapEntered(e, inc, v, omitEmpty) ==
  IF inc.err # NoErr
  THEN DepthCut(e, inc.ctx, IF e.opts.CutoffCollection = Empty
                            THEN JObj(EmptyMap) ELSE JNull)
  ELSE IF v.key.kind # "string"
  THEN R(JNull, FALSE, ErrNonStringMapKey, decDepth(inc.ctx))
  ELSE IF omitEmpty /\ (v.ref = 0 \/ DOMAIN EntriesOf(e, v) = {})
  THEN R(JNull, TRUE, NoErr, decDepth(inc.ctx))
  ELSE [encodeEntries(e, inc.ctx, EntriesOf(e, v),
                      MapRange(EntriesOf(e, v), e.iter), EmptyMap)
          EXCEPT !.ctx = decDepth(@)]

\* the reflect.Slice case of encodeValue after incDepth answered inc
sliceEntered(e, inc, v, omitEmpty) ==
  IF inc.err # NoErr
  THEN DepthCut(e, inc.ctx, IF e.opts.CutoffCollection = Empty
                            THEN JArr(<<>>) ELSE JNull)
  ELSE IF omitEmpty /\ (v.ref = 0 \/ Len(e.heap[v.ref].items) = 0)
  THEN R(JNull, TRUE, NoErr, decDepth(inc.ctx))
  ELSE [encodeSlice(e, inc.ctx, v) EXCEPT !.ctx = decDepth(@)]

encodeValue(e, ctx, v, addr, canAddr, omitEmpty, omitZero) ==
  IF v.kind = "ptr" THEN
    IF v.ref = 0 THEN R(JNull, omitEmpty, NoErr, ctx)
    ELSE encodeValue(e, ctx, e.heap[v.ref], <<v.ref, 0>>, TRUE,
                     omitEmpty, omitZero)
  ELSE IF v.kind = "interface" THEN
    IF v.dyn.kind = "nil" THEN R(JNull, omitEmpty, NoErr, ctx)
    ELSE encodeValue(e, ctx, v.dyn, NoAddr, FALSE, omitEmpty, omitZero)
  ELSE IF asJSONMarshaler(v) THEN jsonHook(ctx, MarshalJSON(v))
  ELSE IF asTextMarshaler(v) THEN textHook(ctx, MarshalText(v), omitEmpty)
  ELSE IF v.kind = "struct" THEN
    [encodeStruct(e, ctx, v, addr, canAddr) EXCEPT !.omit = FALSE]
  ELSE IF v.kind = "map"
  THEN mapEntered(e, incDepth(ctx, e.opts), v, omitEmpty)
  ELSE IF v.kind = "slice"
  THEN sliceEntered(e, incDepth(ctx, e.opts), v, omitEmpty)
  ELSE IF v.kind = "chan" THEN R(JNull, FALSE, ErrUnsupportedType, ctx)
  ELSE IF omitEmpty /\ isZeroScalar(v) THEN R(JNull, TRUE, NoErr, ctx)
  ELSE IF omitZero /\ isZeroScalar(v) THEN R(JNull, TRUE, NoErr, ctx)
  ELSE R(ScalarTree(v), FALSE, NoErr, ctx)

(***************************************************************************)
(* Entry points (src/runtime.go:60-136).                                   *)
(***************************************************************************)
\* encodeMapTop (src/runtime.go:352-373): no depth is counted for the root
encodeMapTop(e, ctx, v) ==
  IF v.ref = 0 THEN R(JNull, FALSE, NoErr, ctx)
  ELSE IF v.key.kind # "string" THEN R(JNull, FALSE, ErrNonStringMapKey, ctx)
  ELSE encodeEntries(e, ctx, EntriesOf(e, v),
                     MapRange(EntriesOf(e, v), e.iter), EmptyMap)

RECURSIVE Unwrap(_, _, _)
\* the loop `for val.Kind() == reflect.Ptr` of MarshalToMap: the value
\* reached, whether it is addressable, and whether a nil pointer was met
Unwrap(heap, v, ref) ==
  IF v.kind = "ptr" THEN
    IF v.ref = 0 THEN [v |-> v, ref |-> 0, nilptr |-> TRUE]
    ELSE Unwrap(heap, heap[v.ref], v.ref)
  ELSE [v |-> v, ref |-> ref, nilptr |-> FALSE]

DataKey == <<"d", "a", "t", "a">>

\* the reflect.Slice case of MarshalToMap: the list goes under "data"
wrapData(r) ==
  IF r.err # NoErr THEN r
  ELSE [r EXCEPT !.val = JObj(MapPut(EmptyMap, DataKey, @))]

\* MarshalToMap from the unwrapped value u on
marshalRoot(e, ctx, u) ==
  IF u.nilptr THEN R(JNull, FALSE, ErrNilValue, ctx)
  ELSE IF u.v.kind = "struct"
  THEN encodeStruct(e, ctx, u.v, <<u.ref, 0>>, u.ref # 0)
  ELSE IF u.v.kind = "map" THEN
    IF ~e.opts.AllowMapInput THEN R(JNull, FALSE, ErrInvalidType, ctx)
    ELSE encodeMapTop(e, ctx, u.v)
  ELSE IF u.v.kind = "slice" THEN
    IF ~e.opts.AllowSliceInput THEN R(JNull, FALSE, ErrInvalidType, ctx)
    ELSE wrapData(encodeSlice(e, ctx, u.v))
  ELSE R(JNull, FALSE, ErrInvalidType, ctx)

\* MarshalToMap(v) with the schema cache in state cache
MarshalToMap(e, cache, v) ==
  IF v.kind = "nil" THEN R(JNull, FALSE, ErrNilValue, newContext(cache))
  ELSE marshalRoot(e, newContext(cache), Unwrap(e.heap, v, 0))

(***************************************************************************)
(* encoding/json on the tree: object keys sorted, strings quoted and       *)
(* escaped, integers in decimal, no white space.                           *)
(***************************************************************************)
\* one character of a string literal; escapeHTML turns <, > and & into
\* their \u00XX forms
EscapeChar(c, escapeHTML) ==
  IF c = "\"" THEN <<"\\", "\"">>
  ELSE IF c = "\\" THEN <<"\\", "\\">>
  ELSE IF escapeHTML /\ c = "<" THEN <<"\\", "u", "0", "0", "3", "c">>
  ELSE IF escapeHTML /\ c = ">" THEN <<"\\", "u", "0", "0", "3", "e">>
  ELSE IF escapeHTML /\ c = "&" THEN <<"\\", "u", "0", "0", "2", "6">>
  ELSE <<c>>

RECURSIVE Escape(_, _)
Escape(s, escapeHTML) ==
  IF s = <<>> THEN <<>>
  ELSE EscapeChar(Head(s), escapeHTML) \o Escape(Tail(s), escapeHTML)

Quote(s, escapeHTML) == <<"\"">> \o Escape(s, escapeHTML) \o <<"\"">>

RECURSIVE jsonValue(_, _)
RECURSIVE jsonItems(_, _, _)
RECURSIVE jsonMembers(_, _, _, _)
jsonValue(t, escapeHTML) ==
  IF t.j = "null" THEN <<"n", "u", "l", "l">>
  ELSE IF t.j = "bool" THEN
    IF t.b THEN <<"t", "r", "u", "e">> ELSE <<"f", "a", "l", "s", "e">>
  ELSE IF t.j = "num" THEN FormatInt(t.n)
  ELSE IF t.j = "str" THEN Quote(t.s, escapeHTML)
  ELSE IF t.j = "arr" THEN
    <<"[">> \o jsonItems(t.items, 1, escapeHTML) \o <<"]">>
  ELSE <<"{">> \o jsonMembers(t.m, SortedKeys(DOMAIN t.m), TRUE, escapeHTML)
       \o <<"}">>
jsonItems(items, i, escapeHTML) ==
  IF i > Len(items) THEN <<>>
  ELSE (IF i > 1 THEN <<",">> ELSE <<>>) \o jsonValue(items[i], escapeHTML)
       \o jsonItems(items, i + 1, escapeHTML)
jsonMembers(m, keys, first, escapeHTML) ==
  IF keys = <<>> THEN <<>>
  ELSE (IF first THEN <<>> ELSE <<",">>) \o Quote(Head(keys), escapeHTML)
       \o <<":">> \o jsonValue(m[Head(keys)], escapeHTML)
       \o jsonMembers(m, Tail(keys), FALSE, escapeHTML)

\* json.Encoder.Encode: the value followed by a newline
jsonEncode(t, escapeHTML) == Append(jsonValue(t, escapeHTML), "\n")

\* TrimRight that trims nothing
TrimRightNone(b, c) == b

RECURSIVE TrimRight(_, _)
\* bytes.TrimRight(b, c) for a one-character cutset
TrimRight(b, c) ==
  IF b # <<>> /\ b[Len(b)] = c THEN TrimRight(SubSeq(b, 1, Len(b) - 1), c)
  ELSE b

\* Wrapped that never wraps
WrappedNever(opts, m) == m

\* the map handed to the json encoder: wrapped when TopLevelKey is set
Wrapped(opts, m) ==
  IF opts.TopLevelKey # <<>> THEN JObj(MapPut(EmptyMap, opts.TopLevelKey, m))
  ELSE m

\* Marshal from the answer r of MarshalToMap on
marshalTree(e, r) ==
  IF r.err # NoErr THEN [bytes |-> <<>>, err |-> r.err, r |-> r]
  ELSE [bytes |-> TrimRight(jsonEncode(Wrapped(e.opts, r.val),
                                       e.opts.EscapeHTML), "\n"),
        err |-> NoErr, r |-> r]

\* Marshal (src/runtime.go:60-78): bytes and err, with the tree and the
\* context MarshalToMap left
Marshal(e, cache, v) == marshalTree(e, MarshalToMap(e, cache, v))

\* Encode from the answer r of MarshalToMap on: bytes is what the writer w
\* received
encodeTree(e, r) ==
  IF r.err # NoErr THEN [bytes |-> <<>>, err |-> r.err, r |-> r]
  ELSE [bytes |-> jsonEncode(Wrapped(e.opts, r.val), e.opts.EscapeHTML),
        err |-> NoErr, r |-> r]

\* Encode (src/runtime.go:81-94)
Encode(e, cache, v) == encodeTree(e, MarshalToMap(e, cache, v))

(***************************************************************************)
(* The streaming Encoder (src/unnamed/part_007): the same options, schema, *)
(* context and includeField, but the value is written to a byte buffer as  *)
(* it is walked.  A step returns the buffer, the error and the context.    *)
(***************************************************************************)
SR(buf, err, ctx) == [buf |-> buf, err |-> err, ctx |-> ctx]

NullBytes == <<"n", "u", "l", "l">>

\* writeString: the quoted string, HTML-escaped when the option asks for it
writeString(e, buf, s) == buf \o Quote(s, e.opts.EscapeHTML)

\* the keyBytes of a field, computed by json.Marshal when the schema is built
keyBytes(f) == Append(Quote(f.jsonName, TRUE), ":")

\* isEmptyValue, after encoding/json
isEmptyValue(heap, v) ==
  IF v.kind = "string" THEN Len(v.s) = 0
  ELSE IF v.kind = "slice" THEN v.ref = 0 \/ Len(heap[v.ref].items) = 0
  ELSE IF v.kind = "map" THEN v.ref = 0 \/ DOMAIN heap[v.ref].entries = {}
  ELSE IF v.kind = "bool" THEN ~v.b
  ELSE IF v.kind = "int" THEN v.n = 0
  ELSE IF v.kind = "ptr" THEN v.ref = 0
  ELSE IF v.kind = "interface" THEN v.dyn.kind = "nil"
  ELSE FALSE

encodeScalar(e, ctx, buf, v) ==
  IF v.kind = "string" THEN SR(writeString(e, buf, v.s), NoErr, ctx)
  ELSE IF v.kind = "int" THEN SR(buf \o FormatInt(v.n), NoErr, ctx)
  ELSE IF v.kind = "bool" THEN
    SR(buf \o (IF v.b THEN <<"t", "r", "u", "e">>
               ELSE <<"f", "a", "l", "s", "e">>), NoErr, ctx)
  ELSE SR(buf, ErrUnsupportedType, ctx)

\* encode once MarshalJSON answered h: the bytes are written as they are
streamJSONHook(ctx, buf, h) ==
  IF h.err # NoErr THEN SR(buf, h.err, ctx) ELSE SR(buf \o h.b, NoErr, ctx)

\* encode once MarshalText answered h
streamTextHook(e, ctx, buf, h) ==
  IF h.err # NoErr THEN SR(buf, h.err, ctx)
  ELSE SR(writeString(e, buf, h.txt), NoErr, ctx)

RECURSIVE encode(_, _, _, _, _, _)
RECURSIVE streamStruct(_, _, _, _, _, _)
RECURSIVE streamFields(_, _, _, _, _, _, _, _, _)
RECURSIVE streamMap(_, _, _, _)
RECURSIVE streamEntries(_, _, _, _, _, _)
RECURSIVE streamSlice(_, _, _, _)
RECURSIVE streamItems(_, _, _, _, _, _)

\* encode (part_007:267-323)
encode(e, ctx, buf, v, addr, canAddr) ==
  IF v.kind = "nil" THEN SR(buf \o NullBytes, NoErr, ctx)
  ELSE IF v.kind = "ptr" THEN
    IF v.ref = 0 THEN SR(buf \o NullBytes, NoErr, ctx)
    ELSE encode(e, ctx, buf, e.heap[v.ref], <<v.ref, 0>>, TRUE)
  ELSE IF v.kind = "interface" THEN
    IF v.dyn.kind = "nil" THEN SR(buf \o NullBytes, NoErr, ctx)
    ELSE encode(e, ctx, buf, v.dyn, NoAddr, FALSE)
  ELSE IF asJSONMarshaler(v) THEN streamJSONHook(ctx, buf, MarshalJSON(v))
  ELSE IF asTextMarshaler(v)
  THEN streamTextHook(e, ctx, buf, MarshalText(v))
  ELSE IF v.kind = "struct" THEN streamStruct(e, ctx, buf, v, addr, canAddr)
  ELSE IF v.kind = "map" THEN streamMap(e, ctx, buf, v)
  ELSE IF v.kind = "slice" THEN streamSlice(e, ctx, buf, v)
  ELSE IF v.kind = "chan" THEN SR(buf, ErrUnsupportedType, ctx)
  ELSE encodeScalar(e, ctx, buf, v)

\* the streaming encodeStruct from getSchema's answer gs on
streamStructFields(e, ctx, gs, buf, v, addr, canAddr) ==
  [streamFields(e, [ctx EXCEPT !.cache = gs.cache], Append(buf, "{"),
                v, addr, canAddr, gs.s, 1, TRUE)
     EXCEPT !.ctx = structLeave(@, addr, canAddr)]

\* the streaming encodeStruct from the visited mark on
streamStructVisit(e, ctx, buf, v, addr, canAddr) ==
  streamStructFields(e, ctx, getSchema(ctx.cache, v.type, e.opts.TagKey),
                     buf, v, addr, canAddr)

\* the streaming encodeStruct after incDepth answered inc
streamStructEntered(e, inc, buf, v, addr, canAddr) ==
  IF inc.err # NoErr THEN SR(buf, inc.err, inc.ctx)
  ELSE IF canAddr /\ addr \in inc.ctx.visited
  THEN SR(buf, ErrCircularReference, decDepth(inc.ctx))
  ELSE streamStructVisit(e, IF canAddr THEN markVisited(inc.ctx, addr)
                            ELSE inc.ctx,
                         buf, v, addr, canAddr)

\* encodeStruct (part_007:325-375)
streamStruct(e, ctx, buf, v, addr, canAddr) ==
  streamStructEntered(e, incDepth(ctx, e.opts), buf, v, addr, canAddr)

\* the field loop once field i was written, r the writer's answer
streamFieldWritten(e, v, addr, canAddr, fields, i, r) ==
  IF r.err # NoErr THEN r
  ELSE streamFields(e, r.ctx, r.buf, v, addr, canAddr, fields, i + 1, FALSE)

\* the field loop once fieldByIndex answered fb for field i
streamFieldFound(e, ctx, buf, v, addr, canAddr, fields, i, first, fb) ==
  IF fb.panic THEN SR(buf, Panic, ctx)
  ELSE IF fields[i].omitEmpty /\ isEmptyValue(e.heap, fb.v)
  THEN streamFields(e, ctx, buf, v, addr, canAddr, fields, i + 1, first)
  ELSE IF fields[i].omitZero /\ isZeroScalar(fb.v)
  THEN streamFields(e, ctx, buf, v, addr, canAddr, fields, i + 1, first)
  ELSE streamFieldWritten(e, v, addr, canAddr, fields, i,
         encode(e, ctx,
                (IF first THEN buf ELSE Append(buf, ","))
                  \o keyBytes(fields[i]),
                fb.v, fb.addr, fb.canAddr))

\* the loop over sch.fields from field i on, and the closing brace
streamFields(e, ctx, buf, v, addr, canAddr, fields, i, first) ==
  IF i > Len(fields) THEN SR(Append(buf, "}"), NoErr, ctx)
  ELSE IF Len(e.opts.Groups) > 0 /\ ~includeField(e.opts, fields[i].groups)
  THEN streamFields(e, ctx, buf, v, addr, canAddr, fields, i + 1, first)
  ELSE streamFieldFound(e, ctx, buf, v, addr, canAddr, fields, i, first,
         fieldByIndex(e.heap, v, addr, canAddr, fields[i].index))

\* the keys of the map in the order the loop visits them: MapKeys, sorted
\* when SortKeys is on
StreamKeys(e, entries) ==
  IF e.opts.SortKeys THEN SortedKeys(DOMAIN entries)
  ELSE MapRange(entries, e.iter)

\* the streaming encodeMap after incDepth answered inc
streamMapEntered(e, inc, buf, v) ==
  IF inc.err # NoErr THEN SR(buf, inc.err, inc.ctx)
  ELSE IF v.key.kind # "string"
  THEN SR(buf, ErrNonStringMapKey, decDepth(inc.ctx))
  ELSE [streamEntries(e, inc.ctx, Append(buf, "{"), e.heap[v.ref].entries,
                      StreamKeys(e, e.heap[v.ref].entries), TRUE)
          EXCEPT !.ctx = decDepth(@)]

\* encodeMap (part_007:377-422)
streamMap(e, ctx, buf, v) ==
  IF v.ref = 0 THEN SR(buf \o NullBytes, NoErr, ctx)
  ELSE streamMapEntered(e, incDepth(ctx, e.opts), buf, v)

\* the map loop once the entry under Head(keys) was written
streamEntryWritten(e, entries, keys, r) ==
  IF r.err # NoErr THEN r
  ELSE streamEntries(e, r.ctx, r.buf, entries, Tail(keys), FALSE)

streamEntries(e, ctx, buf, entries, keys, first) ==
  IF keys = <<>> THEN SR(Append(buf, "}"), NoErr, ctx)
  ELSE streamEntryWritten(e, entries, keys,
         encode(e, ctx,
                Append(writeString(e, IF first THEN buf ELSE Append(buf, ","),
                                   Head(keys)), ":"),
                entries[Head(keys)], NoAddr, FALSE))

\* the streaming encodeSlice after incDepth answered inc
streamSliceEntered(e, inc, buf, v) ==
  IF inc.err # NoErr THEN SR(buf, inc.err, inc.ctx)
  ELSE [streamItems(e, inc.ctx, Append(buf, "["), v, e.heap[v.ref].items, 1)
          EXCEPT !.ctx = decDepth(@)]

\* encodeSlice (part_007:424-446)
streamSlice(e, ctx, buf, v) ==
  IF v.ref = 0 THEN SR(buf \o NullBytes, NoErr, ctx)
  ELSE streamSliceEntered(e, incDepth(ctx, e.opts), buf, v)

\* the slice loop once element i was written
streamItemWritten(e, v, items, i, r) ==
  IF r.err # NoErr THEN r
  ELSE streamItems(e, r.ctx, r.buf, v, items, i + 1)

streamItems(e, ctx, buf, v, items, i) ==
  IF i > Len(items) THEN SR(Append(buf, "]"), NoErr, ctx)
  ELSE streamItemWritten(e, v, items, i,
         encode(e, ctx, IF i > 1 THEN Append(buf, ",") ELSE buf,
                items[i], <<v.ref, (i - 1) * Sizeof(v.elem)>>, TRUE))

\* Marshal from the answer r of encode on: the closing brace of the
\* TopLevelKey wrapper and the copy of the buffer
streamMarshalDone(e, r) ==
  IF r.err # NoErr THEN [bytes |-> <<>>, err |-> r.err, r |-> r]
  ELSE [bytes |-> IF e.opts.TopLevelKey # <<>> THEN Append(r.buf, "}")
                  ELSE r.buf,
        err |-> NoErr, r |-> r]

\* Marshal (part_007:60-81): the buffer taken from the pool is reset, the
\* value is encoded into it and a copy of its bytes is returned
streamMarshal(e, cache, v) ==
  streamMarshalDone(e,
    encode(e, newContext(cache),
           IF e.opts.TopLevelKey # <<>>
           THEN Append(writeString(e, <<"{">>, e.opts.TopLevelKey), ":")
           ELSE <<>>,
           v, NoAddr, FALSE))

\* Encode (part_007:84-108): as Marshal, but the bytes of the buffer are
\* written to w; bytes is what w received
streamEncode(e, cache, v) ==
  streamMarshalDone(e,
    encode(e, newContext(cache),
           IF e.opts.TopLevelKey # <<>>
           THEN Append(writeString(e, <<"{">>, e.opts.TopLevelKey), ":")
           ELSE <<>>,
           v, NoAddr, FALSE))

(***************************************************************************)
(* The values handed to the encoder: a heap and the root value v.          *)
(***************************************************************************)
\* length of the linked chain of Node records: two more than any depth limit
ChainLen == MaxDepthArg + 2

NodeV(val, next) == VStruct("Node", <<VInt(val), VPtr(next)>>)
AddressV(ci, l1) == VStruct("Address", <<VStr(ci), VStr(l1)>>)
MetaV(ve) == VStruct("Meta", <<VInt(ve), VInt(0), VInt(5)>>)
NoEntries == [k \in {} |-> VInt(0)]

Inputs ==
  << \* 1: a User by value; Tg is nil, Sc is empty but not nil
     [heap |-> <<Arr(<<>>)>>,
      root |-> VStruct("User",
                 <<VInt(1), VStr(<<"e", "<">>), VStr(<<"n">>),
                   VSlice(TString, 0), VSlice(TInt, 1),
                   AddressV(<<"c">>, <<>>), MetaV(0)>>)],
     \* 2: a User by pointer, every field set
     [heap |-> <<VStruct("User",
                   <<VInt(2), VStr(<<"m">>), VStr(<<>>),
                     VSlice(TString, 2), VSlice(TInt, 3),
                     AddressV(<<"c">>, <<"l">>), MetaV(4)>>),
                 Arr(<<VStr(<<"t">>)>>), Arr(<<VInt(0), VInt(2)>>)>>,
      root |-> VPtr(1)],
     \* 3: two Nodes that point at each other
     [heap |-> <<NodeV(1, 2), NodeV(2, 1)>>, root |-> VPtr(1)],
     \* 4: a Node that points at itself
     [heap |-> <<NodeV(1, 1)>>, root |-> VPtr(1)],
     \* 5: a chain of ChainLen Nodes, the last Next is nil
     [heap |-> [i \in 1..ChainLen |->
                  NodeV(i, IF i < ChainLen THEN i + 1 ELSE 0)],
      root |-> VPtr(1)],
     \* 6: Deep embeds Shallow, both declare "na"
     [heap |-> <<>>,
      root |-> VStruct("Deep",
                 <<VStruct("Shallow", <<VStr(<<"s">>), VInt(7)>>),
                   VStr(<<"d">>)>>)],
     \* 7: Omit with zero scalars and empty, non-nil collections
     [heap |-> <<Arr(<<>>), MapData(NoEntries), Arr(<<>>)>>,
      root |-> VStruct("Omit",
                 <<VStr(<<>>), VBool(FALSE), VSlice(TInt, 1),
                   VMap(TString, 2), VInt(0), VSlice(TInt, 3), VInt(0)>>)],
     \* 8: Omit with nil collections
     [heap |-> <<>>,
      root |-> VStruct("Omit",
                 <<VStr(<<>>), VBool(FALSE), VSlice(TInt, 0),
                   VMap(TString, 0), VInt(0), VSlice(TInt, 0), VInt(1)>>)],
     \* 9: Omit with every field set
     [heap |-> <<Arr(<<VInt(1)>>),
                 MapData([k \in {<<"k">>, <<"j">>} |->
                            IF k = <<"k">> THEN VInt(1) ELSE VInt(2)]),
                 Arr(<<VInt(0)>>)>>,
      root |-> VStruct("Omit",
                 <<VStr(<<"s">>), VBool(TRUE), VSlice(TInt, 1),
                   VMap(TString, 2), VInt(3), VSlice(TInt, 3), VInt(1)>>)],
     \* 10: Bad, a channel and a map keyed by int
     [heap |-> <<>>,
      root |-> VStruct("Bad", <<VChan, VMap(TInt, 0)>>)],
     \* 11: the nil interface, 12: a nil pointer, 13: not a record
     [heap |-> <<>>, root |-> VNil],
     [heap |-> <<>>, root |-> VPtr(0)],
     [heap |-> <<>>, root |-> VInt(3)],
     \* 14: a map at the root, 15: a slice at the root
     [heap |-> <<MapData([k \in {<<"k">>} |-> VInt(1)])>>,
      root |-> VMap(TString, 1)],
     [heap |-> <<Arr(<<VInt(1), VInt(2)>>)>>, root |-> VSlice(TInt, 1)],
     \* 16: a Pair whose L, R and both elements of Ns point at one Node
     [heap |-> <<NodeV(1, 0), Arr(<<VPtr(1), VPtr(1)>>)>>,
      root |-> VStruct("Pair",
                 <<VPtr(1), VPtr(1), VSlice(TPtr(TStruct("Node")), 2)>>)],
     \* 17: a Custom at the root, 18: a Holder of a Custom and a Label
     [heap |-> <<>>, root |-> VStruct("Custom", <<VInt(8)>>)],
     [heap |-> <<>>,
      root |-> VStruct("Holder",
                 <<VStruct("Custom", <<VInt(8)>>),
                   VStruct("Label", <<VStr(<<"v">>)>>), VInt(2)>>)],
     \* 19: a Pair whose L is a chain of two Nodes and whose R is the second
     \* of them; Ns is nil
     [heap |-> <<NodeV(1, 2), NodeV(2, 0)>>,
      root |-> VStruct("Pair",
                 <<VPtr(1), VPtr(2), VSlice(TPtr(TStruct("Node")), 0)>>)],
     \* 20: a map[string]any that holds itself under the key "s",
     \* 21: a []any whose only element is the slice itself
     [heap |-> <<MapData([k \in {<<"s">>} |-> VIface(VMap(TString, 1))])>>,
      root |-> VMap(TString, 1)],
     [heap |-> <<Arr(<<VIface(VSlice(TIface, 1))>>)>>,
      root |-> VSlice(TIface, 1)],
     \* 22: an Opt whose embedded *Shallow is nil
     [heap |-> <<>>, root |-> VStruct("Opt", <<VPtr(0), VInt(5)>>)],
     \* 23: a Ref: P points at an int 0, I holds an int 0, Q and J are nil
     [heap |-> <<VInt(0)>>,
      root |-> VStruct("Ref",
                 <<VPtr(1), VIface(VInt(0)), VPtr(0), VIface(VNil)>>)],
     \* 24: a Box whose X holds p, where p := new(any) and *p = p
     [heap |-> <<VIface(VPtr(1))>>,
      root |-> VStruct("Box", <<VIface(VPtr(1))>>)],
     \* 25: a Wrap by pointer: its first field In is an Address
     [heap |-> <<VStruct("Wrap", <<AddressV(<<"c">>, <<"l">>), VInt(1)>>)>>,
      root |-> VPtr(1)] >>

\* the inputs that hold themselves: only the depth limit ends their encoding
SelfHolding == {20, 21}

\* the input in which a pointer and an interface refer to each other with no
\* record, map or slice between them
Endless == {24}

(***************************************************************************)
(* State.                                                                  *)
(***************************************************************************)
VARIABLES
  enc,          \* the Encoder in hand: its opts
  input,        \* which of Inputs the caller encodes
  schemaCache,  \* the package variable schemaCache
  res,          \* what the last Marshal / MarshalToMap returned
  gos,          \* the goroutines that call into the package concurrently
  bufPool,      \* the package variable bufPool and the buffers it has made
  held,         \* the encoders and the group slice a caller builds with
  walk,         \* the path of one traversal and the error it unwinds with
  frame         \* the innermost call of an encode that runs step by step

vars == <<enc, input, schemaCache, res, gos, bufPool, held, walk, frame>>

GroupLabels == {<<"p">>, <<"a">>, <<>>}

GroupLists == UNION {[1..n -> GroupLabels] : n \in 0..MaxGroups}

TopLevelKeys == {<<>>, <<"d">>}

NoRes ==
  [op |-> "none", bytes |-> <<>>, val |-> JNull, err |-> NoErr,
   depth |-> 0, visited |-> {}]

Env(iter) == [opts |-> enc, heap |-> Inputs[input].heap, iter |-> iter]

\* the orders a map range can take: one when no map of the input has two
\* entries
IterOrders ==
  IF \E c \in DOMAIN Inputs[input].heap :
       /\ Inputs[input].heap[c].kind = "mapdata"
       /\ Cardinality(DOMAIN Inputs[input].heap[c].entries) > 1
  THEN {"asc", "desc"} ELSE {"asc"}

\* a goroutine that is not inside a call of the package
IdleGo == [pc |-> "idle"]

NoGos == [g \in 1..NumGo |-> IdleGo]

\* bufPool before its first Get: no buffer made, none free
EmptyPool == [free |-> {}, mem |-> <<>>]

\* a caller that has built nothing yet
NoHeld ==
  [impl |-> "none", op |-> "none", arrays |-> <<>>, arg |-> 0,
   e |-> <<>>, cells |-> <<>>]

\* a traversal at the root: no segment pushed, no error raised
NoWalk == [path |-> <<>>, at |-> <<>>, err |-> [wrapped |-> FALSE,
                                                Err |-> NoErr, Path |-> <<>>]]

\* no encode is running step by step
NoFrame == [pc |-> "idle"]

Init ==
  /\ enc = DefaultOptions
  /\ input \in (1..Len(Inputs)) \ (SelfHolding \cup Endless)
  /\ schemaCache = [k \in {} |-> <<>>]
  /\ res = NoRes
  /\ gos = NoGos
  /\ bufPool = EmptyPool
  /\ held = NoHeld
  /\ walk = NoWalk
  /\ frame = NoFrame

\* a WithXxx call: the encoder in hand becomes the derived copy, and the
\* caller lets go of what the encoder before it returned
Derive(opts) ==
  /\ enc' = opts
  /\ res' = NoRes
  /\ UNCHANGED <<input, schemaCache, gos, bufPool, held, walk, frame>>

WithGroups == \E g \in GroupLists : Derive([enc EXCEPT !.Groups = g])

WithGroupMode == \E m \in {ModeOr, ModeAnd} : Derive([enc EXCEPT !.Mode = m])

WithTopLevelKey ==
  \E k \in TopLevelKeys : Derive([enc EXCEPT !.TopLevelKey = k])

WithMaxDepth ==
  \E n \in 0..MaxDepthArg :
    Derive([enc EXCEPT !.MaxDepth = IF n < 1 THEN 1 ELSE n])

WithDepthPolicy ==
  \E p \in {DepthTruncate, DepthError} :
    Derive([enc EXCEPT !.DepthPolicy = p])

WithCutoffCollection ==
  \E c \in {Null, Empty} : Derive([enc EXCEPT !.CutoffCollection = c])

WithEscapeHTML == \E on \in BOOLEAN : Derive([enc EXCEPT !.EscapeHTML = on])

\* a call returns: res is what the caller holds, the package's schemaCache
\* is what the encode left
Return(op, bytes, val, err, ctx) ==
  /\ res' = [op |-> op, bytes |-> bytes, val |-> val, err |-> err,
             depth |-> ctx.depth, visited |-> ctx.visited]
  /\ schemaCache' = ctx.cache
  /\ UNCHANGED <<enc, input, gos, bufPool, held, walk, frame>>

ReturnMarshal(m) == Return("Marshal", m.bytes, m.r.val, m.err, m.r.ctx)

ReturnTree(r) == Return("MarshalToMap", <<>>, r.val, r.err, r.ctx)

\* Encode returns its error alone; bytes is what it wrote to w
ReturnWritten(op, m) == Return(op, m.bytes, JNull, m.err, m.r.ctx)

ReturnStream(m) == Return("StreamMarshal", m.bytes, JNull, m.err, m.r.ctx)

\* enc.Marshal(v)
DoMarshal ==
  \E iter \in IterOrders :
    ReturnMarshal(Marshal(Env(iter), schemaCache, Inputs[input].root))

\* enc.MarshalToMap(v)
DoMarshalToMap ==
  \E iter \in IterOrders :
    ReturnTree(MarshalToMap(Env(iter), schemaCache, Inputs[input].root))

WithSortKeys == \E on \in BOOLEAN : Derive([enc EXCEPT !.SortKeys = on])

\* enc.Encode(w, v)
DoEncode ==
  \E iter \in IterOrders :
    ReturnWritten("Encode", Encode(Env(iter), schemaCache, Inputs[input].root))

\* the streaming encoder's enc.Encode(w, v)
DoStreamEncode ==
  \E iter \in IterOrders :
    ReturnWritten("StreamEncode",
                  streamEncode(Env(iter), schemaCache, Inputs[input].root))

AllowMap == \E on \in BOOLEAN : Derive([enc EXCEPT !.AllowMapInput = on])

AllowSlice == \E on \in BOOLEAN : Derive([enc EXCEPT !.AllowSliceInput = on])

\* the streaming encoder's enc.Marshal(v)
DoStreamMarshal ==
  \E iter \in IterOrders :
    ReturnStream(streamMarshal(Env(iter), schemaCache, Inputs[input].root))

\* the traversal: the encoder is derived and MarshalToMap builds the tree
Next ==
  \/ WithGroups
  \/ WithGroupMode
  \/ WithMaxDepth
  \/ WithDepthPolicy
  \/ WithCutoffCollection
  \/ DoMarshalToMap

Spec == Init /\ [][Next]_vars

\* the serialization: Marshal next to MarshalToMap, with the options that
\* only the bytes depend on
NextMarshal ==
  \/ WithGroups
  \/ WithTopLevelKey
  \/ WithEscapeHTML
  \/ WithMaxDepth
  \/ DoMarshal
  \/ DoMarshalToMap

SpecMarshal == Init /\ [][NextMarshal]_vars

\* the streaming encoder: its builder calls and its Marshal
NextStream ==
  \/ WithGroups
  \/ WithGroupMode
  \/ WithMaxDepth
  \/ WithSortKeys
  \/ DoStreamMarshal

SpecStream == Init /\ [][NextStream]_vars

\* the streaming encoder's two outputs: the bytes returned by Marshal and
\* the bytes written by Encode
NextStreamOut ==
  \/ WithGroups
  \/ WithTopLevelKey
  \/ WithMaxDepth
  \/ WithDepthPolicy
  \/ DoStreamMarshal
  \/ DoStreamEncode

SpecStreamOut == Init /\ [][NextStreamOut]_vars

(***************************************************************************)
(* Concurrent schema resolution (src/runtime.go:218-226): each goroutine   *)
(* calls getSchema(t, DefaultTagKey).  Load and Store of the sync.Map are  *)
(* atomic; buildSchema works on the goroutine's own queue and field list,  *)
(* one pass of its `for len(q) > 0` loop per step.                         *)
(***************************************************************************)
CacheTypes == {"User", "Deep"}

CacheKey(t) == <<t, DefaultTagKey>>

\* the loop state buildSchema starts from
BuildStart(t) ==
  [q |-> <<[t |-> TStruct(t), index |-> <<>>, depth |-> 0]>>,
   out |-> <<>>, seen |-> {}]

\* one pass of the loop `for len(q) > 0`
BuildStep(st) ==
  IF Head(st.q).t.kind # "struct" THEN [st EXCEPT !.q = Tail(@)]
  ELSE ScanFields(Head(st.q), 1, DefaultTagKey, [st EXCEPT !.q = Tail(@)])

\* the Store is reached although the loop has not emptied its queue
buildDoneEarly(st) == TRUE

\* buildSchema has returned: the loop has emptied its queue
buildDone(st) == st.q = <<>>

\* go getSchema(t, DefaultTagKey)
GoCall(g) ==
  /\ gos[g].pc = "idle"
  /\ \E t \in CacheTypes : gos' = [gos EXCEPT ![g] = [pc |-> "load", t |-> t]]
  /\ UNCHANGED <<enc, input, schemaCache, res, bufPool, held, walk, frame>>

\* schemaCache.Load(key): a hit returns the stored schema
GoLoad(g) ==
  /\ gos[g].pc = "load"
  /\ gos' = [gos EXCEPT ![g] =
       IF CacheKey(gos[g].t) \in DOMAIN schemaCache
       THEN [pc |-> "done", t |-> gos[g].t,
             ret |-> schemaCache[CacheKey(gos[g].t)]]
       ELSE [pc |-> "build", t |-> gos[g].t, st |-> BuildStart(gos[g].t)]]
  /\ UNCHANGED <<enc, input, schemaCache, res, bufPool, held, walk, frame>>

\* buildSchema: one pass of its loop
GoBuild(g) ==
  /\ gos[g].pc = "build"
  /\ gos[g].st.q # <<>>
  /\ gos' = [gos EXCEPT ![g].st = BuildStep(@)]
  /\ UNCHANGED <<enc, input, schemaCache, res, bufPool, held, walk, frame>>

\* schemaCache.Store(key, s); return s
GoStore(g) ==
  /\ gos[g].pc = "build"
  /\ buildDone(gos[g].st)
  /\ schemaCache' = cacheStore(schemaCache, CacheKey(gos[g].t),
                               gos[g].st.out).cache
  /\ gos' = [gos EXCEPT ![g] = [pc |-> "done", t |-> gos[g].t,
                                ret |-> gos[g].st.out]]
  /\ UNCHANGED <<enc, input, res, bufPool, held, walk, frame>>

\* the caller has taken the schema
GoReturn(g) ==
  /\ gos[g].pc = "done"
  /\ gos' = [gos EXCEPT ![g] = IdleGo]
  /\ UNCHANGED <<enc, input, schemaCache, res, bufPool, held, walk, frame>>

NextCache ==
  \E g \in 1..NumGo :
    \/ GoCall(g)
    \/ GoLoad(g)
    \/ GoBuild(g)
    \/ GoStore(g)
    \/ GoReturn(g)

\* the goroutines start with an empty cache; no value is encoded
InitGo == Init /\ input = 1

SpecCache == InitGo /\ [][NextCache]_vars

(***************************************************************************)
(* The builders as a caller uses them.  held.arrays are the backing arrays *)
(* of the []string slices in play, a slice being the index of its array    *)
(* (0 is the nil slice); held.arg is the slice the caller passes to        *)
(* WithGroups.  held.e[1] is an encoder the caller keeps, held.e[2] the    *)
(* encoder the last builder call returned.  With the Encoder of            *)
(* src/runtime.go the caller holds Encoder values, with the one of         *)
(* src/v2/groupjson.go pointers to the Encoders held.cells.                *)
(***************************************************************************)
MaxSlices == 3

BuilderGroups == {"a", "p"}

NilSlice == 0

SliceContent(arrays, sl) == IF sl = NilSlice THEN <<>> ELSE arrays[sl]

\* append([]string(nil), groups...): nil for no groups, else a new array
copyGroups(h, sl) ==
  IF SliceContent(h.arrays, sl) = <<>>
  THEN [arrays |-> h.arrays, sl |-> NilSlice]
  ELSE [arrays |-> Append(h.arrays, h.arrays[sl]),
        sl |-> Len(h.arrays) + 1]

\* the group list is the caller's slice itself
shareGroups(h, sl) == [arrays |-> h.arrays, sl |-> sl]

\* the options a caller observes in the encoder it holds in slot s
View(h, s) ==
  IF h.impl = "v2"
  THEN [groups |-> SliceContent(h.arrays, h.cells[h.e[s]].groups),
        mode |-> h.cells[h.e[s]].mode]
  ELSE [h.e[s] EXCEPT !.Groups = SliceContent(h.arrays, @)]

\* NewEncoder() of src/runtime.go
EncoderNew ==
  /\ held' = [impl |-> "runtime", op |-> "New", arrays |-> <<>>, arg |-> 0,
              e |-> <<[DefaultOptions EXCEPT !.Groups = NilSlice],
                      [DefaultOptions EXCEPT !.Groups = NilSlice]>>,
              cells |-> <<>>]
  /\ UNCHANGED <<enc, input, schemaCache, res, gos, bufPool, walk, frame>>

\* New() of src/v2/groupjson.go
V2New ==
  /\ held' = [impl |-> "v2", op |-> "New", arrays |-> <<>>, arg |-> 0,
              e |-> <<1, 1>>,
              cells |-> <<[groups |-> NilSlice, mode |-> ModeOr]>>]
  /\ UNCHANGED <<enc, input, schemaCache, res, gos, bufPool, walk, frame>>

\* the caller makes the slice it is going to pass: gs := []string{g}
CallerMakeSlice ==
  /\ held.impl # "none"
  /\ Len(held.arrays) < MaxSlices
  /\ \E g \in BuilderGroups :
       held' = [held EXCEPT !.op = "make",
                            !.arrays = Append(@, <<g>>),
                            !.arg = Len(held.arrays) + 1]
  /\ UNCHANGED <<enc, input, schemaCache, res, gos, bufPool, walk, frame>>

\* the caller writes into the slice it passed before: gs[0] = g
CallerWriteSlice ==
  /\ held.arg # NilSlice
  /\ \E g \in BuilderGroups :
       /\ held.arrays[held.arg] # <<g>>
       /\ held' = [held EXCEPT !.op = "write", !.arrays[held.arg] = <<g>>]
  /\ UNCHANGED <<enc, input, schemaCache, res, gos, bufPool, walk, frame>>

\* the caller keeps the encoder the last builder call returned
CallerKeep ==
  /\ held.impl # "none"
  /\ held.e[1] # held.e[2]
  /\ held' = [held EXCEPT !.op = "keep", !.e[1] = held.e[2]]
  /\ UNCHANGED <<enc, input, schemaCache, res, gos, bufPool, walk, frame>>

\* func (e Encoder) WithGroups(groups ...string) Encoder, called on the
\* encoder of slot s with the caller's slice: c is the copy of the slice
EncoderWithGroupsCopied(s, c) ==
  held' = [held EXCEPT !.op = "WithGroups", !.arrays = c.arrays,
                       !.e[2] = [held.e[s] EXCEPT !.Groups = c.sl]]

EncoderWithGroups(s) ==
  /\ held.impl = "runtime"
  /\ Len(held.arrays) < MaxSlices
  /\ \E sl \in {NilSlice, held.arg} :
       EncoderWithGroupsCopied(s, copyGroups(held, sl))
  /\ UNCHANGED <<enc, input, schemaCache, res, gos, bufPool, walk, frame>>

\* func (e Encoder) WithGroupMode(mode GroupMode) Encoder
EncoderWithGroupMode(s) ==
  /\ held.impl = "runtime"
  /\ \E m \in {ModeOr, ModeAnd} :
       held' = [held EXCEPT !.op = "WithGroupMode",
                            !.e[2] = [held.e[s] EXCEPT !.Mode = m]]
  /\ UNCHANGED <<enc, input, schemaCache, res, gos, bufPool, walk, frame>>

\* func (e Encoder) AllowMap(on bool) Encoder
EncoderAllowMap(s) ==
  /\ held.impl = "runtime"
  /\ \E on \in BOOLEAN :
       held' = [held EXCEPT !.op = "AllowMap",
                            !.e[2] = [held.e[s] EXCEPT !.AllowMapInput = on]]
  /\ UNCHANGED <<enc, input, schemaCache, res, gos, bufPool, walk, frame>>

\* func (e *Encoder) WithGroups(groups ...string) *Encoder: the Encoder e
\* points to gets the copy c of the slice, and e is returned
V2WithGroupsCopied(s, c) ==
  held' = [held EXCEPT !.op = "WithGroups", !.arrays = c.arrays,
                       !.cells[held.e[s]].groups = c.sl,
                       !.e[2] = held.e[s]]

V2WithGroups(s) ==
  /\ held.impl = "v2"
  /\ Len(held.arrays) < MaxSlices
  /\ \E sl \in {NilSlice, held.arg} :
       V2WithGroupsCopied(s, copyGroups(held, sl))
  /\ UNCHANGED <<enc, input, schemaCache, res, gos, bufPool, walk, frame>>

\* func (e *Encoder) WithMode(mode Mode) *Encoder
V2WithMode(s) ==
  /\ held.impl = "v2"
  /\ \E m \in {ModeOr, ModeAnd} :
       held' = [held EXCEPT !.op = "WithMode",
                            !.cells[held.e[s]].mode = m,
                            !.e[2] = held.e[s]]
  /\ UNCHANGED <<enc, input, schemaCache, res, gos, bufPool, walk, frame>>

NextBuilder ==
  \/ EncoderNew
  \/ V2New
  \/ CallerMakeSlice
  \/ CallerWriteSlice
  \/ CallerKeep
  \/ \E s \in 1..2 :
       \/ EncoderWithGroups(s)
       \/ EncoderWithGroupMode(s)
       \/ EncoderAllowMap(s)
       \/ V2WithGroups(s)
       \/ V2WithMode(s)

SpecBuilder == InitGo /\ [][NextBuilder]_vars

(***************************************************************************)
(* The path of an error (src/errors.go:36-74, src/runtime.go:156-172).     *)
(* walk.path is ctx.path; walk.err is the error on its way up, an *Error   *)
(* once WrapError made it; walk.at remembers the segments that led to the  *)
(* place where the error was raised.  Every frame of encodeStruct,         *)
(* encodeSlice and the map loops pushes its segment, encodes the value,    *)
(* pops, and wraps the error with the same segment.                        *)
(***************************************************************************)
MaxPath == 3

\* a field name, a second one, fmt.Sprintf("[%d]", 0), and
\* fmt.Sprintf("[\"%s\"]", "k")
PathSegments ==
  {<<"a">>, <<"b">>, <<"[", "0", "]">>, <<"[", "\"", "k", "\"", "]">>}

HasPrefix(s, prefix) ==
  Len(s) >= Len(prefix) /\ SubSeq(s, 1, Len(prefix)) = prefix

HasSuffix(s, suffix) ==
  /\ Len(s) >= Len(suffix)
  /\ SubSeq(s, Len(s) - Len(suffix) + 1, Len(s)) = suffix

push(path, field) == Append(path, field)

pop(path) == IF Len(path) > 0 THEN SubSeq(path, 1, Len(path) - 1) ELSE path

pathStr(path) == Join(path, ".")

WrapError(err, path) ==
  IF err.wrapped
  THEN IF err.Path = <<>> THEN [err EXCEPT !.Path = path]
       ELSE IF path # <<>>
       THEN IF \/ err.Path = path
               \/ HasSuffix(err.Path, <<".">> \o path)
               \/ HasPrefix(err.Path, path \o <<".">>)
            THEN err
            ELSE [err EXCEPT !.Path = path \o <<".">> \o @]
       ELSE err
  ELSE [wrapped |-> TRUE, Err |-> err.Err, Path |-> path]

\* a frame descends: ctx.push(name), then encodeValue
PathPush ==
  /\ walk.err.Err = NoErr
  /\ Len(walk.path) < MaxPath
  /\ \E seg \in PathSegments :
       walk' = [walk EXCEPT !.path = push(@, seg)]
  /\ UNCHANGED <<enc, input, schemaCache, res, gos, bufPool, held, frame>>

\* the value reached is refused: WrapError(ErrX, ctx.pathStr())
PathRaise ==
  /\ walk.err.Err = NoErr
  /\ \E x \in {ErrMaxDepth, ErrCircularReference, ErrUnsupportedType,
               ErrNonStringMapKey} :
       walk' = [walk EXCEPT
                  !.at = walk.path,
                  !.err = WrapError([wrapped |-> FALSE, Err |-> x,
                                     Path |-> <<>>], pathStr(walk.path))]
  /\ UNCHANGED <<enc, input, schemaCache, res, gos, bufPool, held, frame>>

\* a frame sees the error: ctx.pop(), return WrapError(err, name)
PathUnwind ==
  /\ walk.err.Err # NoErr
  /\ walk.path # <<>>
  /\ walk' = [walk EXCEPT
                !.path = pop(@),
                !.err = WrapError(@, walk.path[Len(walk.path)])]
  /\ UNCHANGED <<enc, input, schemaCache, res, gos, bufPool, held, frame>>

\* the root call has returned the error; the next call starts
PathReturn ==
  /\ walk.err.Err # NoErr
  /\ walk.path = <<>>
  /\ walk' = NoWalk
  /\ UNCHANGED <<enc, input, schemaCache, res, gos, bufPool, held, frame>>

NextPath ==
  \/ PathPush
  \/ PathRaise
  \/ PathUnwind
  \/ PathReturn

SpecPath == InitGo /\ [][NextPath]_vars

(***************************************************************************)
(* Concurrent Marshal calls of the streaming encoder on the pooled buffers *)
(* (src/unnamed/part_007:53-81).  bufPool.mem[b] is the content of buffer  *)
(* b, bufPool.free the buffers lying in the pool.  A goroutine keeps the   *)
(* slice its last call returned while it makes the next call.              *)
(***************************************************************************)
\* the values the goroutines encode: a User, and a Bad whose encode fails
\* after the opening of the object was written
PoolJobs == {1, 10}

PoolEnv(job) ==
  [opts |-> [DefaultOptions EXCEPT !.Groups = <<GP>>],
   heap |-> Inputs[job].heap, iter |-> "asc"]

NoRet == [job |-> 0, ok |-> FALSE, ref |-> 0, bytes |-> <<>>]

\* the slice a goroutine holds from its last call
Held(go) == IF "ret" \in DOMAIN go THEN go.ret ELSE NoRet

\* the returned slice shares the array of the buffer
sliceOfBuffer(job, mem, b) ==
  [job |-> job, ok |-> TRUE, ref |-> b, bytes |-> <<>>]

\* append([]byte(nil), buf.Bytes()...): a fresh slice with the bytes of b
copyOfBuffer(job, mem, b) ==
  [job |-> job, ok |-> TRUE, ref |-> 0, bytes |-> mem[b]]

\* the bytes a caller reads in the slice it holds
Seen(ret) == IF ret.ref # 0 THEN bufPool.mem[ret.ref] ELSE ret.bytes

\* bufPool.Get(): a buffer lying in the pool, or a new one from New
PoolGet(g) ==
  /\ gos[g].pc \in {"idle", "out"}
  /\ \E job \in PoolJobs :
       \/ \E b \in bufPool.free :
            /\ bufPool' = [bufPool EXCEPT !.free = @ \ {b}]
            /\ gos' = [gos EXCEPT ![g] = [pc |-> "reset", job |-> job,
                                          buf |-> b, ret |-> Held(gos[g])]]
       \/ /\ Len(bufPool.mem) < NumGo
          /\ bufPool' = [bufPool EXCEPT !.mem = Append(@, <<>>)]
          /\ gos' = [gos EXCEPT ![g] = [pc |-> "reset", job |-> job,
                                        buf |-> Len(bufPool.mem) + 1,
                                        ret |-> Held(gos[g])]]
  /\ UNCHANGED <<enc, input, schemaCache, res, held, walk, frame>>

\* buf.Reset()
PoolReset(g) ==
  /\ gos[g].pc = "reset"
  /\ bufPool' = [bufPool EXCEPT !.mem[gos[g].buf] = <<>>]
  /\ gos' = [gos EXCEPT ![g].pc = "encode"]
  /\ UNCHANGED <<enc, input, schemaCache, res, held, walk, frame>>

\* the rest of Marshal once encode answered r: the error or the copy of the
\* bytes is returned, and the deferred bufPool.Put(buf) runs
PoolEncoded(g, r) ==
  /\ bufPool' = [free |-> bufPool.free \cup {gos[g].buf},
                 mem |-> [bufPool.mem EXCEPT ![gos[g].buf] = r.buf]]
  /\ gos' = [gos EXCEPT ![g] =
       [pc |-> "out",
        ret |-> IF r.err # NoErr THEN [NoRet EXCEPT !.job = gos[g].job]
                ELSE copyOfBuffer(gos[g].job,
                                  [bufPool.mem EXCEPT ![gos[g].buf] = r.buf],
                                  gos[g].buf)]]
  /\ schemaCache' = r.ctx.cache
  /\ UNCHANGED <<enc, input, res, held, walk, frame>>

\* e.encode(buf, reflect.ValueOf(v), newContext(e.opts)) and the return
PoolEncode(g) ==
  /\ gos[g].pc = "encode"
  /\ PoolEncoded(g, encode(PoolEnv(gos[g].job), newContext(schemaCache),
                           bufPool.mem[gos[g].buf], Inputs[gos[g].job].root,
                           NoAddr, FALSE))

NextPool ==
  \E g \in 1..NumGo :
    \/ PoolGet(g)
    \/ PoolReset(g)
    \/ PoolEncode(g)

SpecPool == InitGo /\ [][NextPool]_vars

\* the state after NewEncoder().WithMaxDepth(1).AllowMap(true)
\* .AllowSlice(true), with a value that holds itself to encode
InitSelf ==
  /\ enc = [DefaultOptions EXCEPT !.MaxDepth = 1, !.AllowMapInput = TRUE,
                                  !.AllowSliceInput = TRUE]
  /\ input \in SelfHolding
  /\ schemaCache = [k \in {} |-> <<>>]
  /\ res = NoRes
  /\ gos = NoGos
  /\ bufPool = EmptyPool
  /\ held = NoHeld
  /\ walk = NoWalk
  /\ frame = NoFrame

\* encodes under small depth limits; WithMaxDepth never raises the limit
\* above MaxDepthArg
NextSelf ==
  \/ WithMaxDepth
  \/ WithDepthPolicy
  \/ WithCutoffCollection
  \/ WithTopLevelKey
  \/ DoMarshal
  \/ DoMarshalToMap

SpecSelf == InitSelf /\ [][NextSelf]_vars

\* the three entry points and the options that raise errors below the root
NextErr ==
  \/ WithGroups
  \/ WithMaxDepth
  \/ WithDepthPolicy
  \/ DoMarshal
  \/ DoEncode
  \/ DoMarshalToMap

SpecErr == Init /\ [][NextErr]_vars

\* the entry point and what it admits at the root
NextRoot ==
  \/ WithGroups
  \/ WithTopLevelKey
  \/ AllowMap
  \/ AllowSlice
  \/ DoMarshal
  \/ DoEncode
  \/ DoMarshalToMap

SpecRoot == Init /\ [][NextRoot]_vars

TypeOK ==
  /\ input \in 1..Len(Inputs)
  /\ res.op \in {"none", "Marshal", "MarshalToMap", "StreamMarshal",
                  "Encode", "StreamEncode"}

(***************************************************************************)
(* What the properties below speak of: the record handed to the encoder,   *)
(* its resolved fields, the groups a field declares in its tag, and the    *)
(* request.                                                                *)
(***************************************************************************)
TheInput == Inputs[input]

RootRec == Unwrap(TheInput.heap, TheInput.root, 0).v

RootIsRecord ==
  /\ TheInput.root.kind # "nil"
  /\ ~Unwrap(TheInput.heap, TheInput.root, 0).nilptr
  /\ RootRec.kind = "struct"

RootSchema == buildSchema(RootRec.type, enc.TagKey)

\* the value held by the resolved field f of the root record
RootFieldValue(f) == fieldByIndex(TheInput.heap, RootRec, NoAddr, FALSE, f.index).v

\* the name of the record type behind a (pointer to) struct type
RecName(type) == IF type.kind = "ptr" THEN type.elem.name ELSE type.name

IsRecType(type) ==
  \/ type.kind = "struct"
  \/ type.kind = "ptr" /\ type.elem.kind = "struct"

RECURSIVE StructFieldAt(_, _)
\* the declaration reached from record type t along an index path
StructFieldAt(t, index) ==
  LET sf == StructTypes[t][Head(index)] IN
  IF Len(index) = 1 THEN sf ELSE StructFieldAt(RecName(sf.Type), Tail(index))

\* the set of groups a declaration names in its group tag: none when the
\* tag is absent
DeclaredGroups(sf) ==
  LET g == TagGet(sf.Tag, enc.TagKey) IN
  IF g = <<>> THEN {} ELSE SeqToSet(Split(g, ","))

Requested == SeqToSet(enc.Groups)

\* the omit flags of field f fire on the value fv
OmitApplies(heap, f, fv) ==
  \/ /\ f.omitEmpty
     /\ \/ fv.kind \in {"string", "bool", "int"} /\ isZeroScalar(fv)
        \/ fv.kind \in {"ptr", "slice", "map"} /\ fv.ref = 0
        \/ fv.kind = "slice" /\ fv.ref # 0 /\ Len(heap[fv.ref].items) = 0
        \/ fv.kind = "map" /\ fv.ref # 0 /\ DOMAIN heap[fv.ref].entries = {}
        \/ fv.kind = "interface" /\ fv.dyn.kind = "nil"
  \/ f.omitZero /\ isZeroScalar(fv)

\* an encode of a record has returned its object
Emitted ==
  /\ res.op # "none"
  /\ res.err = NoErr
  /\ RootIsRecord
  /\ res.val.j = "obj"

HasKey(k) == k \in DOMAIN res.val.m

\* C1: OR mode, non-empty request G: a resolved field of the record whose
\* omit flags do not fire is in the output of MarshalToMap if and only if the
\* set of groups it declares intersects G.
C1_OrModeIffIntersect ==
  (Emitted /\ enc.Mode = ModeOr /\ enc.Groups # <<>>) =>
    \A i \in 1..Len(RootSchema) :
      LET f == RootSchema[i] IN
      ~OmitApplies(TheInput.heap, f, RootFieldValue(f)) =>
        (HasKey(f.jsonName) <=>
           DeclaredGroups(StructFieldAt(RootRec.type, f.index))
             \cap Requested # {})

\* C2: AND mode, non-empty request G: a resolved field of the record whose
\* omit flags do not fire is in the output if and only if every group of G
\* is among the groups the field declares.
C2_AndModeIffSubset ==
  (Emitted /\ enc.Mode = ModeAnd /\ enc.Groups # <<>>) =>
    \A i \in 1..Len(RootSchema) :
      LET f == RootSchema[i] IN
      ~OmitApplies(TheInput.heap, f, RootFieldValue(f)) =>
        (HasKey(f.jsonName) <=>
           Requested \subseteq
             DeclaredGroups(StructFieldAt(RootRec.type, f.index)))

\* C3: when the list of requested groups is empty, the encoded record is
\* the empty object {} whatever its fields declare: no field is emitted.
C3_EmptyRequestEmptyObject ==
  (res.op # "none" /\ res.err = NoErr /\ RootIsRecord /\ enc.Groups = <<>>) =>
    IF res.op = "StreamMarshal" THEN res.bytes = <<"{", "}">>
    ELSE res.val = JObj(EmptyMap)

\* C4: a resolved field whose declaration carries no group tag is never in
\* the output, whatever the mode and the request.
C4_UntaggedNeverEmitted ==
  Emitted =>
    \A i \in 1..Len(RootSchema) :
      LET f == RootSchema[i] IN
      DeclaredGroups(StructFieldAt(RootRec.type, f.index)) = {} =>
        ~HasKey(f.jsonName)

\* a declared group set is visible under the request
SpecVisible(declared) ==
  /\ enc.Groups # <<>>
  /\ declared # {}
  /\ IF enc.Mode = ModeAnd THEN Requested \subseteq declared
     ELSE Requested \cap declared # {}

RECURSIVE PathVisible(_, _)
\* every key of the object tree built for record type t is a resolved field
\* of t, and where that field holds a record, the field is visible under
\* the request and the same holds of the nested object (a record that a
\* serialization hook encodes has no nested object)
PathVisible(t, tree) ==
  tree.j = "obj" =>
    \A k \in DOMAIN tree.m :
      LET sch == buildSchema(t, enc.TagKey) IN
      /\ \E i \in 1..Len(sch) : sch[i].jsonName = k
      /\ \A i \in 1..Len(sch) :
           LET sf == StructFieldAt(t, sch[i].index) IN
           (sch[i].jsonName = k /\ IsRecType(sf.Type)) =>
             /\ SpecVisible(DeclaredGroups(sf))
             /\ RecName(sf.Type) \in JSONMarshalers \cup TextMarshalers
                  \/ PathVisible(RecName(sf.Type), tree.m[k])

\* C5: visibility is multiplicative along the path of record fields: a
\* nested record (and so any field in it) is in the output only if every
\* record field enclosing it, from the root down, is visible under the
\* request.  Fields promoted from an anonymous embedding belong to the record
\* that embeds them.
C5_VisibleAlongPath ==
  Emitted => PathVisible(RootRec.type, res.val)

\* C5: a User encoded for group p: Ad declares only a, so it is left out
\* although Ci and L1 inside it declare p
C5_ParentExcluded ==
  /\ Emitted
  /\ RootRec.type = "User"
  /\ enc.Groups = <<GP>>
  /\ HasKey(<<"i", "d">>)
  /\ ~HasKey(<<"a", "d">>)

IsCyclePair == input = 3

IsChain == input = 5

\* both fields of Node are visible under the request
NodeVisible ==
  \A i \in 1..Len(StructTypes.Node) :
    SpecVisible(DeclaredGroups(StructTypes.Node[i]))

RECURSIVE ChainTree(_, _)
\* levels k..n of the chain as objects, null in place of level n + 1
ChainTree(k, n) ==
  JObj([x \in {<<"v">>, <<"n">>} |->
          IF x = <<"v">> THEN JNum(k)
          ELSE IF k = n THEN JNull ELSE ChainTree(k + 1, n)])

RECURSIVE Flatten(_)
Flatten(ss) == IF ss = <<>> THEN <<>> ELSE Head(ss) \o Flatten(Tail(ss))

\* field i of the record at it is an anonymous embedding that is flattened
Flattened(sf) ==
  /\ sf.Anonymous
  /\ IsRecType(sf.Type)
  /\ Split(TagGet(sf.Tag, "json"), ",")[1] = <<>>

\* field sf is a candidate of the schema: exported and not ignored
Eligible(sf) == sf.Exported /\ TagGet(sf.Tag, "json") # <<"-">>

EmitName(sf) ==
  LET n == Split(TagGet(sf.Tag, "json"), ",")[1] IN
  IF n = <<>> THEN sf.Name ELSE n

\* the named fields of the record at it = [t, index], in declaration order
OwnCandidates(it) ==
  LET fs == StructTypes[it.t] IN
  Flatten([i \in 1..Len(fs) |->
             IF Eligible(fs[i]) /\ ~Flattened(fs[i])
             THEN <<[jsonName |-> EmitName(fs[i]),
                     index |-> Append(it.index, i)]>>
             ELSE <<>>])

\* the records it embeds, in declaration order
Embeddings(it) ==
  LET fs == StructTypes[it.t] IN
  Flatten([i \in 1..Len(fs) |->
             IF Eligible(fs[i]) /\ Flattened(fs[i])
             THEN <<[t |-> RecName(fs[i].Type), index |-> Append(it.index, i)]>>
             ELSE <<>>])

RECURSIVE LevelOrder(_)
\* the named fields level by level: those of the records in its, then those
\* of the records they embed
LevelOrder(its) ==
  IF its = <<>> THEN <<>>
  ELSE Flatten([i \in 1..Len(its) |-> OwnCandidates(its[i])])
       \o LevelOrder(Flatten([i \in 1..Len(its) |-> Embeddings(its[i])]))

\* the elements of c whose name no earlier element carries
FirstWins(c) ==
  Flatten([i \in 1..Len(c) |->
             IF \E j \in 1..(i - 1) : c[j].jsonName = c[i].jsonName
             THEN <<>> ELSE <<c[i]>>])

IsDeep == RootIsRecord /\ RootRec.type = "Deep"

NameKey == <<"n", "a">>

\* C8: in every resolved schema the first occurrence of an emit name in
\* breadth-first order is kept and later ones are dropped; for Deep, which
\* embeds Shallow and declares "na" as Shallow does, the schema keeps the
\* outer field alone and the output carries the outer value.
C8_FirstOccurrenceWins ==
  /\ \A key \in DOMAIN schemaCache :
       [i \in 1..Len(schemaCache[key]) |->
          [jsonName |-> schemaCache[key][i].jsonName,
           index |-> schemaCache[key][i].index]]
         = FirstWins(LevelOrder(<<[t |-> key[1], index |-> <<>>]>>))
  /\ (IsDeep /\ Emitted) =>
       /\ \A i \in 1..Len(RootSchema) :
            RootSchema[i].jsonName = NameKey => Len(RootSchema[i].index) = 1
       /\ HasKey(NameKey) => res.val.m[NameKey] = JStr(<<"d">>)

\* C8: Deep encoded with the outer field visible
C8_OuterEmitted ==
  /\ IsDeep
  /\ Emitted
  /\ <<"Deep", DefaultTagKey>> \in DOMAIN schemaCache
  /\ HasKey(NameKey)
  /\ res.val.m[NameKey] = JStr(<<"d">>)

\* C9: for a visible field, omitempty suppresses the key of an empty
\* sequence, empty mapping, empty string or false; omitzero suppresses the key
\* of a zero scalar; an empty sequence under omitzero alone is kept and
\* emitted as [].
C9_OmitRules ==
  Emitted =>
    \A i \in 1..Len(RootSchema) :
      LET f == RootSchema[i]
          fv == RootFieldValue(f)
          heap == TheInput.heap
      IN
      SpecVisible(DeclaredGroups(StructFieldAt(RootRec.type, f.index))) =>
        /\ (f.omitEmpty /\ fv.kind \in {"string", "bool", "slice", "map"}
              /\ OmitApplies(heap, f, fv)) => ~HasKey(f.jsonName)
        /\ (f.omitZero /\ isZeroScalar(fv)) => ~HasKey(f.jsonName)
        /\ (f.omitZero /\ ~f.omitEmpty /\ fv.kind = "slice" /\ fv.ref # 0
              /\ Len(heap[fv.ref].items) = 0) =>
             /\ HasKey(f.jsonName)
             /\ res.val.m[f.jsonName] = JArr(<<>>)

\* the tree serialized as it stands, no key around it, strings escaped as
\* the encoder in hand escapes them
Plain(t) == jsonValue(t, enc.EscapeHTML)

\* a MarshalToMap is followed by a Marshal of the same encoder and value
MapThenMarshal == res.op = "MarshalToMap" /\ res'.op = "Marshal"

SameCallAgain == res.op # "none" /\ res'.op = res.op

\* C11: encoding the same value twice with the same configuration yields
\* byte-identical output (and the same tree and error), also for values that
\* contain mappings.
C11_SameBytesTwice ==
  [][SameCallAgain =>
       /\ res'.bytes = res.bytes
       /\ res'.err = res.err
       /\ res'.val = res.val]_vars

\* the root handed to the entry point is nil or a nil pointer
RootIsNil ==
  \/ TheInput.root.kind = "nil"
  \/ Unwrap(TheInput.heap, TheInput.root, 0).nilptr

\* the root, its leading pointers unwrapped, is of a kind the encoder in
\* hand admits: a record, a map with AllowMapInput, a slice with
\* AllowSliceInput
RootAdmitted ==
  \/ RootRec.kind = "struct"
  \/ RootRec.kind = "map" /\ enc.AllowMapInput
  \/ RootRec.kind = "slice" /\ enc.AllowSliceInput

NoOutput == res.bytes = <<>> /\ res.val = JNull

\* C12: a nil root and a nil root pointer are rejected with ErrNilValue; a
\* root that, its leading pointers unwrapped, is not a record is rejected with
\* ErrInvalidType unless it is a map and map input is allowed or a slice and
\* slice input is allowed; a rejected call returns no output.
C12_RootRejected ==
  res.op # "none" =>
    /\ RootIsNil => (res.err = ErrNilValue /\ NoOutput)
    /\ (~RootIsNil /\ ~RootAdmitted) => (res.err = ErrInvalidType /\ NoOutput)
    /\ (~RootIsNil /\ RootAdmitted) => res.err \notin {ErrNilValue, ErrInvalidType}

\* the encoder in hand with its TopLevelKey removed
EnvNoKey(iter) == [Env(iter) EXCEPT !.opts.TopLevelKey = <<>>]

\* what the call behind res returns or writes for the same value under the
\* same configuration without TopLevelKey, the line end of json.Encoder taken
\* off
Unkeyed(iter) ==
  IF res.op = "Marshal"
  THEN Marshal(EnvNoKey(iter), schemaCache, TheInput.root).bytes
  ELSE IF res.op = "Encode"
  THEN TrimRight(Encode(EnvNoKey(iter), schemaCache, TheInput.root).bytes, "\n")
  ELSE IF res.op = "StreamMarshal"
  THEN streamMarshal(EnvNoKey(iter), schemaCache, TheInput.root).bytes
  ELSE streamEncode(EnvNoKey(iter), schemaCache, TheInput.root).bytes

\* the JSON object {k: x}
KeyedObject(k, x) ==
  <<"{">> \o Quote(k, enc.EscapeHTML) \o <<":">> \o x \o <<"}">>

BytesOut == res.op \in {"Marshal", "Encode", "StreamMarshal", "StreamEncode"}

\* C13: with a TopLevelKey k, Marshal and Encode output exactly the object
\* {k: X}, X being their output for the same value and configuration without
\* the key (Encode ends its output with a line end in both cases); without a
\* key the output is X itself.
C13_KeyWrapsOutput ==
  (BytesOut /\ res.err = NoErr) =>
    \E iter \in IterOrders :
      TrimRight(res.bytes, "\n") =
        IF enc.TopLevelKey = <<>> THEN Unkeyed(iter)
        ELSE KeyedObject(enc.TopLevelKey, Unkeyed(iter))

\* C13: Encode of a User for group a under the key d has written the object
C13_EncodeWrapped ==
  /\ res.op = "Encode"
  /\ res.err = NoErr
  /\ enc.TopLevelKey = <<"d">>
  /\ enc.Groups = <<GA>>
  /\ RootIsRecord
  /\ RootRec.type = "User"
  /\ SubSeq(res.bytes, 1, 5) = <<"{", "\"", "d", "\"", ":">>

IsBad == RootIsRecord /\ RootRec.type = "Bad"

\* C14: an error raised at any depth aborts the whole encode: Marshal returns
\* the error and no bytes, MarshalToMap returns no tree, Encode writes nothing
\* to the writer; an unsupported value in a visible field of the record is
\* such an error.
C14_ErrorAborts ==
  /\ (res.op # "none" /\ res.err # NoErr) =>
       /\ BytesOut => res.bytes = <<>>
       /\ res.op = "MarshalToMap" => res.val = JNull
  /\ (res.op # "none" /\ IsBad
        /\ SpecVisible(DeclaredGroups(StructTypes.Bad[1]))) =>
       res.err = ErrUnsupportedType

\* C14: Encode of the two Nodes that point at each other found the cycle at
\* the third record and wrote nothing
C14_CycleAborted ==
  /\ res.op = "Encode"
  /\ IsCyclePair
  /\ res.err = ErrCircularReference
  /\ res.bytes = <<>>

IsShared == input = 16

\* the fields of Pair and of Node are visible under the request
PairVisible ==
  /\ NodeVisible
  /\ \A i \in 1..Len(StructTypes.Pair) :
       SpecVisible(DeclaredGroups(StructTypes.Pair[i]))

\* C15: cycle detection follows the current path only: a Node referenced by
\* two sibling fields of a Pair and by two elements of one of its sequences,
\* with no reference back to an ancestor, is encoded at each of the places
\* and no cycle error is reported.
C15_SharedNotCycle ==
  (IsShared /\ res.op # "none" /\ PairVisible /\ enc.MaxDepth >= 3) =>
    /\ res.err = NoErr
    /\ res.val.m[<<"l">>] = ChainTree(1, 1)
    /\ res.val.m[<<"r">>] = ChainTree(1, 1)
    /\ res.val.m[<<"n", "s">>] = JArr(<<ChainTree(1, 1), ChainTree(1, 1)>>)

\* C15: the Pair has been encoded with the shared Node at all four places
C15_SharedEncoded ==
  /\ IsShared
  /\ res.op = "MarshalToMap"
  /\ PairVisible
  /\ enc.MaxDepth >= 3
  /\ res.err = NoErr
  /\ res.val.m[<<"r">>] = ChainTree(1, 1)
  /\ res.visited = {}

RECURSIVE SchemaOrderMembers(_, _, _, _)
\* the members of the object m as JSON text, the keys in the order of the
\* field list fields from field i on
SchemaOrderMembers(m, fields, i, first) ==
  IF i > Len(fields) THEN <<>>
  ELSE IF fields[i].jsonName \notin DOMAIN m
  THEN SchemaOrderMembers(m, fields, i + 1, first)
  ELSE (IF first THEN <<>> ELSE <<",">>)
       \o Quote(fields[i].jsonName, enc.EscapeHTML) \o <<":">>
       \o Plain(m[fields[i].jsonName])
       \o SchemaOrderMembers(m, fields, i + 1, FALSE)

\* C16: in the serialized output the keys of a record stand in the order of
\* the record's schema field list (own fields in declaration order, then the
\* promoted fields of embedded records), not in sorted order.
C16_KeysInSchemaOrder ==
  (res.op = "Marshal" /\ Emitted /\ enc.TopLevelKey = <<>>) =>
    res.bytes =
      <<"{">> \o SchemaOrderMembers(res.val.m, RootSchema, 1, TRUE) \o <<"}">>

IsCustom == RootIsRecord /\ RootRec.type = "Custom"

IsHolder == RootIsRecord /\ RootRec.type = "Holder"

\* what the hook of the Custom of the model returns, as text and as tree
HookBytes == <<"{", "\"", "c", "i", "d", "\"", ":", "8", "}">>

HookTree == JObj(MapPut(EmptyMap, <<"c", "i", "d">>, JNum(8)))

\* C17: a value whose type provides a serialization hook is encoded by the
\* hook, the root value included, and its representation does not depend on
\* the requested groups: a Custom at the root comes out as its MarshalJSON
\* text, and inside a Holder the Custom and the Label come out as their
\* hooks' results wherever their fields are emitted.
C17_HookBeforeRecord ==
  /\ (IsCustom /\ res.op # "none" /\ res.err = NoErr /\ enc.TopLevelKey = <<>>) =>
       IF BytesOut THEN TrimRight(res.bytes, "\n") = HookBytes
       ELSE res.val = HookTree
  /\ (IsHolder /\ res.op = "MarshalToMap" /\ res.err = NoErr) =>
       /\ HasKey(<<"c">>) => res.val.m[<<"c">>] = HookTree
       /\ HasKey(<<"t">>) => res.val.m[<<"t">>] = JStr(<<"p", "_", "v">>)

\* C18: whatever the interleaving of concurrent resolutions of one (record
\* type, tag key), every caller receives the field list a single sequential
\* buildSchema produces, the cache never holds a partly built field list, and
\* once an entry exists it stays equal to that list.
C18_CacheConverges ==
  /\ \A g \in 1..NumGo :
       gos[g].pc = "done" => gos[g].ret = buildSchema(gos[g].t, DefaultTagKey)
  /\ \A key \in DOMAIN schemaCache :
       schemaCache[key] = buildSchema(key[1], key[2])

\* C18: two goroutines resolved User at the same time: one has stored its
\* list and returned, the other missed the cache before that and is still
\* building its own
C18_RaceToStore ==
  /\ gos[1].pc = "done"
  /\ gos[1].t = "User"
  /\ gos[2].pc = "build"
  /\ gos[2].t = "User"
  /\ CacheKey("User") \in DOMAIN schemaCache

\* what Marshal returns for the value of a job when it runs alone
AloneBytes(job) ==
  streamMarshal(PoolEnv(job), [k \in {} |-> <<>>], Inputs[job].root).bytes

\* C19: the pooled buffers leak nothing between calls: whatever the
\* interleaving of concurrent Marshal calls, failing ones included, the slice
\* a successful call returned holds the bytes the call returns when run
\* alone, and keeps holding them while later calls reuse the buffer.
C19_PoolKeepsResults ==
  \A g \in 1..NumGo :
    Held(gos[g]).ok => Seen(Held(gos[g])) = AloneBytes(Held(gos[g]).job)

\* C19: goroutine 1 holds the bytes of a User while goroutine 2 has taken a
\* buffer in which a failed call left the opening of an object
C19_ReusedAfterFailure ==
  /\ Held(gos[1]).ok
  /\ Held(gos[1]).job = 1
  /\ gos[2].pc = "reset"
  /\ bufPool.mem[gos[2].buf] = <<"{", "\"", "c", "\"", ":">>

BuilderCalls == {"WithGroups", "WithGroupMode", "AllowMap", "WithMode"}

\* C20: the Encoder is an immutable builder: a WithX / AllowX call leaves the
\* options of the encoder the caller keeps as they were, group list
\* included, and a later write of the caller into the slice it passed to
\* WithGroups changes the group list of no encoder.
C20_BuilderImmutable ==
  [][/\ held'.op \in BuilderCalls => View(held', 1) = View(held, 1)
     /\ held'.op = "write" =>
          \A s \in 1..2 : View(held', s) = View(held, s)]_vars

\* C21: Marshal of a Bad whose channel and int-keyed map are both nil: when
\* the channel field is visible the call returns the unsupported-type error,
\* and when only the map field is visible it returns the
\* invalid-map-key-type error.
C21_UnencodableFails ==
  (res.op = "Marshal" /\ IsBad) =>
    /\ SpecVisible(DeclaredGroups(StructTypes.Bad[1])) =>
         res.err = ErrUnsupportedType
    /\ (/\ ~SpecVisible(DeclaredGroups(StructTypes.Bad[1]))
        /\ SpecVisible(DeclaredGroups(StructTypes.Bad[2]))) =>
         res.err = ErrNonStringMapKey

\* C22: when an error raised below the root has passed every frame on its way
\* up, its Path is the segments that led to the place it was raised, each
\* once, outermost first, joined by dots.
C22_PathOuterToInner ==
  (walk.err.Err # NoErr /\ walk.path = <<>> /\ walk.at # <<>>) =>
    walk.err.Path = pathStr(walk.at)

\* C23: the traversal state is balanced: when the root call of an encode
\* returns, with a tree, with a truncated tree or with an error, the depth
\* counter of its context is 0 again and its visited set is empty.
C23_TraversalBalanced ==
  res.op # "none" => (res.depth = 0 /\ res.visited = {})

IsFork == input = 19

\* C24: truncation is local: in a Pair whose L holds a chain of two Nodes and
\* whose R holds one Node, with MaxDepth at least 2 and the truncate policy,
\* the Node under R lies at level 2 and is encoded in full, whether or not
\* the second Node under L was cut at level 3 before it.
C24_TruncationLocal ==
  (/\ IsFork
   /\ res.op # "none"
   /\ PairVisible
   /\ enc.MaxDepth >= 2
   /\ enc.DepthPolicy = DepthTruncate) =>
    /\ res.err = NoErr
    /\ res.val.m[<<"r">>] = ChainTree(2, 2)

\* C25: a map that holds itself as a value, and a slice that holds itself as
\* an element, make the encode fail with the circular-reference error.
C25_SelfHoldingIsCycle ==
  (input \in SelfHolding /\ res.op # "none") =>
    res.err = ErrCircularReference

IsOpt == RootIsRecord /\ RootRec.type = "Opt"

\* C26: an Opt whose embedded *Shallow is nil, its fields visible: the fields
\* promoted from Shallow are skipped, no error is returned, and the field K
\* of the Opt itself is encoded.
C26_NilEmbeddedSkipped ==
  (/\ IsOpt
   /\ res.op # "none"
   /\ SpecVisible(DeclaredGroups(StructTypes.Opt[2]))) =>
    /\ res.err = NoErr
    /\ res.val = JObj(MapPut(EmptyMap, <<"k">>, JNum(5)))

IsRef == RootIsRecord /\ RootRec.type = "Ref"

\* C27: omitempty looks at the field's own value: in a Ref whose fields are
\* visible, P, a non-nil pointer to 0, and I, a non-nil interface holding 0,
\* are emitted as 0, while the nil pointer Q and the nil interface J are
\* suppressed.
C27_OmitOnOwnValue ==
  (/\ IsRef
   /\ Emitted
   /\ SpecVisible(DeclaredGroups(StructTypes.Ref[1]))) =>
    /\ HasKey(<<"p">>) /\ res.val.m[<<"p">>] = JNum(0)
    /\ HasKey(<<"i">>) /\ res.val.m[<<"i">>] = JNum(0)
    /\ ~HasKey(<<"q">>)
    /\ ~HasKey(<<"j">>)

(***************************************************************************)
(* An encode run call by call (src/runtime.go:97-136, 300-318, 393-509):   *)
(* frame is the innermost call, frame.v the value it was handed,           *)
(* frame.depth and frame.visited the context.  The values encoded here     *)
(* have one reference to follow in each record, map and slice, so the      *)
(* calls form one chain; a call that has nothing to descend into returns,  *)
(* and with it every call above it.                                        *)
(***************************************************************************)
DescentInputs == {3, 4, 5} \cup SelfHolding \cup Endless

\* the kinds whose encoding calls encodeValue on another value
Links == {"ptr", "interface", "struct", "map", "slice"}

RECURSIVE linkField(_, _, _, _)
\* the first field from i on that the request includes and whose value is
\* encoded by a further call: 0 when there is none
linkField(opts, t, fields, i) ==
  IF i > Len(fields) THEN 0
  ELSE IF /\ includeField(opts, fields[i].groups)
          /\ StructFieldAt(t, fields[i].index).Type.kind \in Links
  THEN i
  ELSE linkField(opts, t, fields, i + 1)

\* the chain of calls ends: every call returns
Returns(f, err) == [f EXCEPT !.pc = "done", !.err = err]

\* the next call, on the value v
Calls(f, v, addr, canAddr) ==
  [f EXCEPT !.root = FALSE, !.v = v, !.addr = addr, !.canAddr = canAddr]

\* incDepth in the frame
frameInc(f) == [f EXCEPT !.depth = @ + 1]

\* the return on a failed incDepth: the error or the cut value
frameCut(f) ==
  Returns(f, IF f.opts.DepthPolicy = DepthError THEN ErrMaxDepth ELSE NoErr)

\* encodeStruct once fieldByIndex answered fb for the field to follow
structCalls(f, fb) ==
  IF fb.panic THEN Returns(f, Panic)
  ELSE Calls(f, fb.v, fb.addr, fb.canAddr)

\* encodeStruct's field loop: k is the field to follow
structLink(f, heap, fields, k) ==
  IF k = 0 THEN Returns(f, NoErr)
  ELSE structCalls(f, fieldByIndex(heap, f.v, f.addr, f.canAddr,
                                   fields[k].index))

\* encodeStruct: depth, cycle check, visited mark, field loop
descendStruct(f, heap) ==
  IF f.depth + 1 > f.opts.MaxDepth THEN frameCut(frameInc(f))
  ELSE IF f.canAddr /\ f.addr \in f.visited
  THEN Returns(frameInc(f), ErrCircularReference)
  ELSE structLink(
         [frameInc(f) EXCEPT !.visited =
            IF f.canAddr THEN @ \cup {f.addr} ELSE @],
         heap, buildSchema(f.v.type, f.opts.TagKey),
         linkField(f.opts, f.v.type,
                   buildSchema(f.v.type, f.opts.TagKey), 1))

\* the entries of a map: the value under the first key is the one to follow
mapCalls(f, entries) ==
  IF DOMAIN entries = {} THEN Returns(f, NoErr)
  ELSE Calls(f, entries[MinKey(DOMAIN entries)], NoAddr, FALSE)

\* encodeMapTop for the root, the reflect.Map case of encodeValue below it
descendMap(f, heap) ==
  IF f.root
  THEN IF ~f.opts.AllowMapInput THEN Returns(f, ErrInvalidType)
       ELSE IF f.v.ref = 0 THEN Returns(f, NoErr)
       ELSE IF f.v.key.kind # "string" THEN Returns(f, ErrNonStringMapKey)
       ELSE mapCalls(f, heap[f.v.ref].entries)
  ELSE IF f.depth + 1 > f.opts.MaxDepth THEN frameCut(frameInc(f))
  ELSE IF f.v.key.kind # "string"
  THEN Returns(frameInc(f), ErrNonStringMapKey)
  ELSE IF f.v.ref = 0 THEN Returns(frameInc(f), NoErr)
  ELSE mapCalls(frameInc(f), heap[f.v.ref].entries)

\* the elements of a slice: the first one is the one to follow
sliceCalls(f, items) ==
  IF Len(items) = 0 THEN Returns(f, NoErr)
  ELSE Calls(f, items[1], <<f.v.ref, 0>>, TRUE)

\* encodeSlice for the root, the reflect.Slice case of encodeValue below it
descendSlice(f, heap) ==
  IF f.root
  THEN IF ~f.opts.AllowSliceInput THEN Returns(f, ErrInvalidType)
       ELSE IF f.v.ref = 0 THEN Returns(f, NoErr)
       ELSE sliceCalls(f, heap[f.v.ref].items)
  ELSE IF f.depth + 1 > f.opts.MaxDepth THEN frameCut(frameInc(f))
  ELSE IF f.v.ref = 0 THEN Returns(frameInc(f), NoErr)
  ELSE sliceCalls(frameInc(f), heap[f.v.ref].items)

\* one call: the loop over the root's pointers in MarshalToMap, else
\* encodeValue
descend(f, heap) ==
  IF f.v.kind = "nil" THEN Returns(f, IF f.root THEN ErrNilValue ELSE NoErr)
  ELSE IF f.v.kind = "ptr" THEN
    IF f.v.ref = 0 THEN Returns(f, IF f.root THEN ErrNilValue ELSE NoErr)
    ELSE [f EXCEPT !.v = heap[f.v.ref], !.addr = <<f.v.ref, 0>>,
                   !.canAddr = TRUE]
  ELSE IF f.v.kind = "interface" THEN
    IF f.v.dyn.kind = "nil" THEN Returns(f, NoErr)
    ELSE [f EXCEPT !.v = f.v.dyn, !.addr = NoAddr, !.canAddr = FALSE]
  ELSE IF ~f.root /\ (asJSONMarshaler(f.v) \/ asTextMarshaler(f.v))
  THEN Returns(f, NoErr)
  ELSE IF f.v.kind = "struct" THEN descendStruct(f, heap)
  ELSE IF f.v.kind = "map" THEN descendMap(f, heap)
  ELSE IF f.v.kind = "slice" THEN descendSlice(f, heap)
  ELSE IF f.root THEN Returns(f, ErrInvalidType)
  ELSE IF f.v.kind = "chan" THEN Returns(f, ErrUnsupportedType)
  ELSE Returns(f, NoErr)

\* enc.MarshalToMap(v) is called
DescentCall ==
  /\ frame.pc = "idle"
  /\ frame' = [pc |-> "run", root |-> TRUE, v |-> Inputs[input].root,
               addr |-> NoAddr, canAddr |-> FALSE, depth |-> 0,
               visited |-> {}, opts |-> enc, err |-> NoErr]
  /\ UNCHANGED <<enc, input, schemaCache, res, gos, bufPool, held, walk>>

\* the innermost call runs up to the call it makes, or returns
DescentStep ==
  /\ frame.pc = "run"
  /\ frame' = descend(frame, Inputs[input].heap)
  /\ UNCHANGED <<enc, input, schemaCache, res, gos, bufPool, held, walk>>

\* the caller has the result
DescentReturn ==
  /\ frame.pc = "done"
  /\ frame' = NoFrame
  /\ UNCHANGED <<enc, input, schemaCache, res, gos, bufPool, held, walk>>

\* the state after NewEncoder().WithGroups("p").AllowMap(true)
\* .AllowSlice(true), with a value that refers to itself, or a chain, to encode
InitDescent ==
  /\ enc = [DefaultOptions EXCEPT !.Groups = <<GP>>, !.AllowMapInput = TRUE,
                                  !.AllowSliceInput = TRUE]
  /\ input \in DescentInputs
  /\ schemaCache = [k \in {} |-> <<>>]
  /\ res = NoRes
  /\ gos = NoGos
  /\ bufPool = EmptyPool
  /\ held = NoHeld
  /\ walk = NoWalk
  /\ frame = NoFrame

NextDescent ==
  \/ DescentCall
  \/ DescentStep
  \/ DescentReturn

\* a call that can take a step takes it
SpecDescent ==
  InitDescent /\ [][NextDescent]_vars /\ WF_vars(DescentStep)

\* C28: every encode terminates: a call that was made returns, also for the
\* values that refer to themselves through pointers, interfaces, maps or
\* slices.
C28_EncodeReturns == (frame.pc = "run") ~> (frame.pc = "done")

\* the inputs in which a reference leads back to a value on the path to it
Cyclic == {3, 4} \cup SelfHolding \cup Endless

IsWrap == RootIsRecord /\ RootRec.type = "Wrap"

\* C29: no false cycle reports: the encode of an input without a reference
\* back to a value on the current path never returns the circular-reference
\* error; one such input is a Wrap passed by pointer, whose first field is
\* a nested Address.
C29_NoFalseCycle ==
  (res.op # "none" /\ input \notin Cyclic) =>
    res.err # ErrCircularReference

\* the request includes the Na of Shallow and excludes the Na of Deep
EmbeddedAlone ==
  /\ SpecVisible(DeclaredGroups(StructTypes.Shallow[1]))
  /\ ~SpecVisible(DeclaredGroups(StructTypes.Deep[2]))

\* C30: name shadowing does not depend on the request: Deep declares "na" and
\* so does the Shallow it embeds; the value of the embedded field is never
\* emitted, and when the request excludes the outer field the key is absent,
\* also when the request includes the embedded field.
C30_ShadowIgnoresRequest ==
  (IsDeep /\ Emitted) =>
    /\ HasKey(NameKey) => res.val.m[NameKey] # JStr(<<"s">>)
    /\ ~SpecVisible(DeclaredGroups(StructTypes.Deep[2])) => ~HasKey(NameKey)

\* C30: Deep encoded under a request that includes the embedded Na alone: the
\* key is absent and the other field of Shallow is emitted
C30_EmbeddedRequested ==
  /\ IsDeep
  /\ Emitted
  /\ EmbeddedAlone
  /\ ~HasKey(NameKey)
  /\ HasKey(<<"x">>)

====
